---- MODULE Spec2Model ----
(***************************************************************************)
(* A model of the Dicenic script interpreter: the value model and its      *)
(* coercions (TypeConverter), the dice calculator, the execution context   *)
(* with its five variable pools, the error handler, and the tree-walking   *)
(* interpreter.  Strings are sequences of one-character strings, so that   *)
(* parsing and formatting are computed rather than assumed.  Numbers are   *)
(* integers; the scripts enumerated below keep every quotient integral     *)
(* (ModelDomainOK checks it).                                              *)
(***************************************************************************)
EXTENDS Integers, Sequences, FiniteSets, TLC

VARIABLES
  program,      \* the parse tree handed to interpret()
  config,       \* ErrorHandler.config: enableRecovery, maxErrors
  status,       \* "running" | "done" | "thrown"
  stack,        \* activation frames of visitProgram / visitBlock / visitWhileStatement
  variables,    \* ExecutionContext.variables
  attributes,   \* ExecutionContext.attributes  ($a)
  roleInfo,     \* ExecutionContext.roleInfo    ($r)
  systemInfo,   \* ExecutionContext.systemInfo  ($s)
  diceInfo,     \* ExecutionContext.diceInfo    ($d)
  errors,       \* ErrorHandler.errors (the kind of each entry)
  warnings,     \* ErrorHandler.warnings (the kind of each entry)
  lastValue,    \* DicenicInterpreter.lastValue
  thrown,       \* the exception that left interpret(), "none" if none
  obs,          \* history of the last step: what was visited and what happened
  scriptResult, \* what executeScript handed to its caller, once it has
  snapshot      \* the last value of getSnapshot() the embedder holds, if any

vars == <<program, config, status, stack, variables, attributes, roleInfo,
          systemInfo, diceInfo, errors, warnings, lastValue, thrown, obs,
          scriptResult, snapshot>>

-----------------------------------------------------------------------------
(* Bounds of the model *)

\* Math.random() is drawn from the grid {0/RandGrid, ..., (RandGrid-1)/RandGrid}
RandGrid == 4
\* longest program, in top-level statements
MaxStmts == 2
\* a small maxErrors setting next to the default one
SmallMaxErrors == 2
\* most dice of one step whose draws are chosen one by one
MaxDraws == 3
\* the longest text and the largest integer the payload scripts compute
MaxText == 4
MaxPayload == 6

-----------------------------------------------------------------------------
(* Values: src/interpreter/types.ts *)

NumberValue(n) == [type |-> "NUMBER", num |-> n, str |-> <<>>]
StringValue(s) == [type |-> "STRING", num |-> 0, str |-> s]
DiceValue(n) == [type |-> "DICE_EXPRESSION", num |-> n, str |-> <<>>]

-----------------------------------------------------------------------------
(* Text helpers: what parseFloat, Number.prototype.toString, trim and      *)
(* toLowerCase do on the characters the model uses (digits, letters, sign, *)
(* blank, "$"; no ".", no exponent).                                       *)

DigitChars == <<"0", "1", "2", "3", "4", "5", "6", "7", "8", "9">>

IsDigit(c) == \E i \in 1..10 : DigitChars[i] = c

DigitOf(c) == (CHOOSE i \in 1..10 : DigitChars[i] = c) - 1

RECURSIVE TrimStart(_)
TrimStart(s) ==
  IF s # <<>> /\ Head(s) \in {" ", "\t", "\n", "\r"} THEN TrimStart(Tail(s)) ELSE s

RECURSIVE TrimEnd(_)
TrimEnd(s) ==
  IF s # <<>> /\ s[Len(s)] \in {" ", "\t", "\n", "\r"}
  THEN TrimEnd(SubSeq(s, 1, Len(s) - 1)) ELSE s

Trim(s) == TrimEnd(TrimStart(s))

RECURSIVE DigitPrefix(_)
DigitPrefix(s) ==
  IF s # <<>> /\ IsDigit(Head(s)) THEN <<Head(s)>> \o DigitPrefix(Tail(s)) ELSE <<>>

RECURSIVE DigitsValue(_, _)
DigitsValue(ds, acc) ==
  IF ds = <<>> THEN acc ELSE DigitsValue(Tail(ds), 10 * acc + DigitOf(Head(ds)))

\* the number a sign and a run of digits denote; NaN if there is no digit
signedDigits(negative, ds) ==
  IF ds = <<>> THEN [nan |-> TRUE, n |-> 0]
  ELSE [nan |-> FALSE, n |-> IF negative THEN 0 - DigitsValue(ds, 0) ELSE DigitsValue(ds, 0)]

\* parseFloat after the leading blanks: an optional sign, then the longest run of digits
parseTrimmed(t) ==
  IF t # <<>> /\ Head(t) \in {"+", "-"}
  THEN signedDigits(Head(t) = "-", DigitPrefix(Tail(t)))
  ELSE signedDigits(FALSE, DigitPrefix(t))

parseFloat(s) == parseTrimmed(TrimStart(s))

\* isNaN(n) ? 0 : n
zeroIfNaN(parsed) == IF parsed.nan THEN 0 ELSE parsed.n

RECURSIVE NatToString(_)
NatToString(n) ==
  IF n < 10 THEN <<DigitChars[n + 1]>>
  ELSE NatToString(n \div 10) \o <<DigitChars[(n % 10) + 1]>>

numberToString(n) == IF n < 0 THEN <<"-">> \o NatToString(0 - n) ELSE NatToString(n)

ToLowerChar(c) == IF c = "D" THEN "d" ELSE c

toLowerCase(s) == [i \in 1..Len(s) |-> ToLowerChar(s[i])]

-----------------------------------------------------------------------------
(* TypeConverter: src/utils/TypeConverter.ts *)

toNumber(value) ==
  CASE value.type = "NUMBER" -> value.num
    [] value.type = "STRING" ->
         zeroIfNaN(parseFloat(value.str))
    [] value.type = "DICE_EXPRESSION" -> value.num
    [] OTHER -> 0

toString(value) ==
  CASE value.type = "STRING" -> value.str
    [] value.type = "NUMBER" -> numberToString(value.num)
    [] value.type = "DICE_EXPRESSION" -> numberToString(value.num)
    [] OTHER -> <<>>

toBoolean(value) ==
  CASE value.type = "NUMBER" -> value.num # 0
    [] value.type = "STRING" -> value.str # <<>>
    [] value.type = "DICE_EXPRESSION" -> value.num # 0
    [] OTHER -> FALSE

-----------------------------------------------------------------------------
(* Maps (the JavaScript Map of each pool) are functions on the set of keys *)

EmptyMap == <<>>

MapHas(m, k) == k \in DOMAIN m

MapSet(m, k, v) == [x \in (DOMAIN m) \cup {k} |-> IF x = k THEN v ELSE m[x]]

-----------------------------------------------------------------------------
(* The evaluation state threaded through the visitor.  It carries the      *)
(* interpreter's and the context's fields, the pending exception, the      *)
(* value returned by the last visit, the random draws still to be handed   *)
(* out by Math.random(), and the observations of the current step.         *)

NoThrow(st) == st.thrown = "none"

Throw(st, exc) == [st EXCEPT !.thrown = exc]

Return(st, value) == [st EXCEPT !.val = value]

-----------------------------------------------------------------------------
(* ErrorHandler: src/errors/ErrorHandler.ts *)

\* DEFAULT_ERROR_CONFIG.maxErrors
DEFAULT_maxErrors == 10

\* addError after a mutation that drops the entry that breaks the limit
addErrorDropping(st, kind) ==
  IF Len(st.errors) + 1 > config.maxErrors
  THEN Throw(st, "TooManyErrors")
  ELSE [st EXCEPT !.errors = Append(@, kind)]

\* addError after a mutation that takes the test of the limit away
addErrorUnchecked(st, kind) == [st EXCEPT !.errors = Append(@, kind)]

\* private addError: push, then throw RuntimeError("Too many errors") if over the limit
addError(st, kind) ==
  LET pushed == [st EXCEPT !.errors = Append(@, kind)]
  IN IF Len(pushed.errors) > config.maxErrors
     THEN Throw(pushed, "TooManyErrors")
     ELSE pushed

\* private addWarning
addWarning(st, warning) == [st EXCEPT !.warnings = Append(@, warning)]

\* addPublicWarning is called by the interpreter; no definition of it is in the sources
addPublicWarning(st, warning) == addWarning(st, warning)

\* handleVariableAccessError after a mutation that raises before recording
handleVariableAccessErrorUnrecorded(st) ==
  IF ~config.enableRecovery THEN Throw(st, "VariableAccessError")
  ELSE addError(st, "VariableAccess")

\* the test of the recovery setting, mutated never to throw
throwNever(st, error) == st

\* after addError: if (!this.config.enableRecovery) throw error
throwUnlessRecovery(st, error) ==
  IF ~NoThrow(st) THEN st
  ELSE IF ~config.enableRecovery THEN Throw(st, error)
  ELSE st

handleSyntaxError(st) == throwUnlessRecovery(addError(st, "Syntax"), "SyntaxError")

handleRuntimeError(st) == throwUnlessRecovery(addError(st, "Runtime"), "RuntimeError")

handleVariableAccessError(st) ==
  throwUnlessRecovery(addError(st, "VariableAccess"), "VariableAccessError")

\* handleDiceError after a mutation that always recovers
handleDiceErrorAlways(st) == Return(addWarning(st, "Dice"), NumberValue(0))

handleDiceError(st) ==
  IF config.enableRecovery
  THEN Return(addWarning(st, "Dice"), NumberValue(0))
  ELSE LET s1 == addError(st, "Dice")
       IN IF ~NoThrow(s1) THEN s1 ELSE Throw(s1, "DiceError")

\* handleLoopError after a mutation that records the condition as an error
handleLoopErrorAsError(st) == addError(st, "Loop")

handleLoopError(st) == addWarning(st, "Loop")

-----------------------------------------------------------------------------
(* DiceCalculator: src/utils/DiceCalculator.ts (src/unnamed/part_004) *)

MAX_DICE_COUNT == 1000
MAX_DICE_SIDES == 10000

\* count and sides are integers here, so Number.isInteger holds
validateDiceExpression(count, sides) ==
  /\ count > 0
  /\ sides > 0
  /\ count <= MAX_DICE_COUNT
  /\ sides <= MAX_DICE_SIDES

\* the regular expression did not match
NoMatch == [ok |-> FALSE, count |-> 0, sides |-> 0]

\* (\d+)$ : the text after the "d" is a non-empty run of digits
matchSides(count, afterD) ==
  IF afterD # <<>> /\ DigitPrefix(afterD) = afterD
  THEN [ok |-> TRUE, count |-> DigitsValue(count, 0), sides |-> DigitsValue(afterD, 0)]
  ELSE NoMatch

\* ^(\d+)d : a non-empty run of digits, then "d"
matchCount(count, rest) ==
  IF count # <<>> /\ rest # <<>> /\ Head(rest) = "d"
  THEN matchSides(count, Tail(rest))
  ELSE NoMatch

matchClean(clean) ==
  matchCount(DigitPrefix(clean), SubSeq(clean, Len(DigitPrefix(clean)) + 1, Len(clean)))

\* the expression matched as it stands, untrimmed
parseDiceExpressionUntrimmed(expression) == matchClean(toLowerCase(expression))

\* /^(\d+)d(\d+)$/ on the trimmed, lower-cased text
parseDiceExpression(expression) == matchClean(toLowerCase(Trim(expression)))

\* a roll counted from zero: Math.floor(Math.random() * sides)
rollOnceFromZero(g, sides) == (g * sides) \div RandGrid

\* Math.floor(Math.random() * sides) + 1, Math.random() = g / RandGrid
rollOnce(g, sides) == ((g * sides) \div RandGrid) + 1

RECURSIVE rollSum(_, _, _)
\* total += roll, for each of the first count draws of rng; the sum of the draws
\* is taken half by half, which keeps its evaluation shallow for 1000 dice
rollSum(rng, count, sides) ==
  IF count = 0 THEN 0
  ELSE IF count = 1 THEN rollOnce(Head(rng), sides)
  ELSE rollSum(SubSeq(rng, 1, count \div 2), count \div 2, sides)
       + rollSum(SubSeq(rng, (count \div 2) + 1, count), count - (count \div 2), sides)

\* calculate: throws on invalid arguments, else sums count draws
calculate(st, count, sides) ==
  IF ~validateDiceExpression(count, sides) THEN Throw(st, "Error: Invalid dice expression")
  ELSE IF Len(st.rng) < count THEN [st EXCEPT !.starved = TRUE]
  ELSE [st EXCEPT !.val = NumberValue(rollSum(st.rng, count, sides)),
                  !.rng = SubSeq(st.rng, count + 1, Len(st.rng)),
                  !.draws = @ + count]

\* the sum calculate returned, as a DICE_EXPRESSION value
asDiceValue(st) == IF ~NoThrow(st) THEN st ELSE Return(st, DiceValue(st.val.num))

evaluateParsed(st, parsed) ==
  IF ~parsed.ok THEN Throw(st, "Error: Invalid dice expression format")
  ELSE asDiceValue(calculate(st, parsed.count, parsed.sides))

evaluateDiceExpression(st, expression) ==
  evaluateParsed(st, parseDiceExpression(expression))

-----------------------------------------------------------------------------
(* ExecutionContext: src/interpreter/DicenicInterpreter.ts, second part *)

getVariable(st, name) ==
  IF MapHas(st.variables, name) THEN st.variables[name] ELSE NumberValue(0)

setVariable(st, name, value) == [st EXCEPT !.variables = MapSet(@, name, value)]

KnownPrefix(prefix) == prefix \in {"a", "r", "s", "d"}

\* getStorageByPrefix, for a known prefix (an unknown one throws)
getStorageByPrefix(st, prefix) ==
  CASE prefix = "a" -> st.attributes
    [] prefix = "r" -> st.roleInfo
    [] prefix = "s" -> st.systemInfo
    [] prefix = "d" -> st.diceInfo

\* getSpecialVariable with the numeric default for every pool
getSpecialVariableNumeric(st, prefix, name) ==
  IF ~KnownPrefix(prefix) THEN Throw(st, "Error: Unknown special variable prefix")
  ELSE LET storage == getStorageByPrefix(st, prefix)
       IN IF MapHas(storage, name) THEN Return(st, storage[name])
          ELSE Return(st, NumberValue(0))

getSpecialVariable(st, prefix, name) ==
  IF ~KnownPrefix(prefix) THEN Throw(st, "Error: Unknown special variable prefix")
  ELSE LET storage == getStorageByPrefix(st, prefix)
       IN IF MapHas(storage, name) THEN Return(st, storage[name])
          ELSE IF prefix = "r" \/ prefix = "s" THEN Return(st, StringValue(<<>>))
          ELSE Return(st, NumberValue(0))

\* canWriteSpecialVariable after a mutation that opens the role pool
canWriteSpecialVariableRoleOpen(prefix) == prefix \in {"a", "d", "r"}

\* canWriteSpecialVariable refusing the two read-only pools only
canWriteSpecialVariableUnlessReadOnly(prefix) == prefix \notin {"r", "s"}

canWriteSpecialVariable(prefix) ==
  CASE prefix = "a" -> TRUE
    [] prefix = "d" -> TRUE
    [] prefix = "r" -> FALSE
    [] prefix = "s" -> FALSE
    [] OTHER -> FALSE

setSpecialVariable(st, prefix, name, value) ==
  IF ~canWriteSpecialVariable(prefix)
  THEN Throw(st, "Error: Cannot write to read-only variable")
  ELSE IF ~KnownPrefix(prefix) THEN Throw(st, "Error: Unknown special variable prefix")
  ELSE CASE prefix = "a" -> [st EXCEPT !.attributes = MapSet(@, name, value)]
         [] prefix = "r" -> [st EXCEPT !.roleInfo = MapSet(@, name, value)]
         [] prefix = "s" -> [st EXCEPT !.systemInfo = MapSet(@, name, value)]
         [] prefix = "d" -> [st EXCEPT !.diceInfo = MapSet(@, name, value)]

-----------------------------------------------------------------------------
(* Parse tree nodes (the contract of the generated parser,                 *)
(* src/unnamed/part_002).  Every node has the same fields: its kind k, its *)
(* operator op, its token text s and its children kids.  A node is named   *)
(* by its path, the child indices leading to it from the statement a step  *)
(* starts at.                                                              *)

Node(k, op, s, kids) == [k |-> k, op |-> op, s |-> s, kids |-> kids]

Num(text) == Node("num", "", text, <<>>)
Str(text) == Node("str", "", text, <<>>)
Dice(text) == Node("dice", "", text, <<>>)
Id(text) == Node("id", "", text, <<>>)
Sv(text) == Node("sv", "", text, <<>>)
Paren(e) == Node("paren", "", <<>>, <<e>>)
Bin(op, l, r) == Node("bin", op, <<>>, <<l, r>>)
Un(op, e) == Node("un", op, <<>>, <<e>>)
Or(operands) == Node("or", "||", <<>>, operands)
And(operands) == Node("and", "&&", <<>>, operands)
Tern(c, t, e) == Node("tern", "?", <<>>, <<c, t, e>>)
Asg(op, l, r) == Node("asg", op, <<>>, <<l, r>>)
ExprStmt(e) == Node("expr", "", <<>>, <<e>>)
If(c, t) == Node("if", "", <<>>, <<c, t>>)
IfElse(c, t, e) == Node("if", "else", <<>>, <<c, t, e>>)
While(c, body) == Node("while", "", <<>>, <<c, body>>)
Block(stmts) == Node("block", "", <<>>, stmts)

-----------------------------------------------------------------------------
(* DicenicInterpreter, expressions: src/interpreter/DicenicInterpreter.ts *)

Abs(x) == IF x < 0 THEN 0 - x ELSE x

\* JavaScript / on numbers whose quotient is integral
jsDivide(a, b) ==
  LET q == Abs(a) \div Abs(b)
  IN IF (a < 0) = (b < 0) THEN q ELSE 0 - q

\* JavaScript %: the sign of the dividend
jsRemainder(a, b) ==
  LET r == Abs(a) % Abs(b)
  IN IF a < 0 THEN 0 - r ELSE r

\* the zero-divisor branch, mutated to report a Runtime error through the handler
divisionByZeroAsError(st, warning) ==
  Return(addError([st EXCEPT !.zeroDivs = @ + 1], "Runtime"), NumberValue(0))

\* the branch rightNum === 0 of '/' and '%': a warning, and the result is 0
divisionByZero(st, warning) ==
  Return(addPublicWarning([st EXCEPT !.zeroDivs = @ + 1], warning), NumberValue(0))

\* value.type === STRING && isNaN(parseFloat(value.value))
IsNonNumericString(value) == value.type = "STRING" /\ parseFloat(value.str).nan

\* the switch of performArithmeticOperation on the two numbers
arithmeticSwitch(st, leftNum, rightNum, operator) ==
  CASE operator = "+" -> Return(st, NumberValue(leftNum + rightNum))
    [] operator = "-" -> Return(st, NumberValue(leftNum - rightNum))
    [] operator = "*" -> Return(st, NumberValue(leftNum * rightNum))
    [] operator = "/" ->
         IF rightNum = 0
         THEN divisionByZero(st, "DivisionByZero")
         ELSE Return([st EXCEPT !.inexact = @ \/ (jsRemainder(leftNum, rightNum) # 0)],
                     NumberValue(jsDivide(leftNum, rightNum)))
    [] operator = "%" ->
         IF rightNum = 0
         THEN divisionByZero(st, "ModuloByZero")
         ELSE Return(st, NumberValue(jsRemainder(leftNum, rightNum)))
    [] OTHER -> Return(st, NumberValue(0))

performArithmeticOperation(st, left, right, operator) ==
  IF operator = "+" /\ (IsNonNumericString(left) \/ IsNonNumericString(right))
  THEN Return(st, StringValue(toString(left) \o toString(right)))
  ELSE arithmeticSwitch(st, toNumber(left), toNumber(right), operator)

\* the == of performComparisonOperation comparing types as well as payloads
valuesEqualTyped(left, right) == left = right

\* the == of performComparisonOperation: same type, same payload; else the same text
valuesEqual(left, right) ==
  IF left.type = right.type
  THEN left.num = right.num /\ left.str = right.str
  ELSE toString(left) = toString(right)

\* the switch of performComparisonOperation
comparisonSwitch(equal, leftNum, rightNum, operator) ==
  CASE operator = "==" -> equal
    [] operator = "!=" -> ~equal
    [] operator = ">" -> leftNum > rightNum
    [] operator = "<" -> leftNum < rightNum
    [] operator = ">=" -> leftNum >= rightNum
    [] operator = "<=" -> leftNum <= rightNum
    [] OTHER -> FALSE

performComparisonOperation(st, left, right, operator) ==
  Return(st, NumberValue(
    IF comparisonSwitch(valuesEqual(left, right), toNumber(left), toNumber(right), operator)
    THEN 1 ELSE 0))

ArithmeticOps == {"+", "-", "*", "/", "%"}

CompoundOps == {"+=", "-=", "*=", "/=", "%="}

\* the binary operator a compound assignment applies
BinaryOf(operator) ==
  CASE operator = "+=" -> "+"
    [] operator = "-=" -> "-"
    [] operator = "*=" -> "*"
    [] operator = "/=" -> "/"
    [] operator = "%=" -> "%"

\* "$" prefix name: the well-formedness test, the prefix and the name of the token
SpecialWellFormed(text) == Len(text) > 2 /\ text[1] = "$"
SpecialPrefix(text) == text[2]
SpecialName(text) == SubSeq(text, 3, Len(text))

\* a write to $r or $s reaches the permission check
CountReadOnlyWrite(st, prefix) ==
  IF prefix \in {"r", "s"} THEN [st EXCEPT !.roWrites = @ + 1] ELSE st

\* an invalid left-hand side passing unnoticed
invalidLeftHandSideIgnored(st) == st

\* throw new Error('Invalid left-hand side in assignment')
invalidLeftHandSide(st) == Throw(st, "Error: Invalid left-hand side in assignment")

\* the current value of the left operand of a compound assignment
currentValue(st, left) ==
  IF left.k = "id" THEN Return(st, getVariable(st, left.s))
  ELSE IF left.k = "sv"
  THEN IF SpecialWellFormed(left.s)
       THEN getSpecialVariable(st, SpecialPrefix(left.s), SpecialName(left.s))
       ELSE Return(st, NumberValue(0))
  ELSE invalidLeftHandSide(st)

\* the switch on the compound operator; cur.val is currentValue
compoundValue(cur, rightValue, operator) ==
  IF ~NoThrow(cur) THEN cur
  ELSE IF operator \in CompoundOps
  THEN performArithmeticOperation(cur, cur.val, rightValue, BinaryOf(operator))
  ELSE Throw(cur, "Error: Unknown assignment operator")

\* finalValue, left in val
finalValue(st, left, rightValue, operator) ==
  IF operator = "=" THEN Return(st, rightValue)
  ELSE compoundValue(currentValue(st, left), rightValue, operator)

\* try { setSpecialVariable } catch { handleVariableAccessError; return finalValue }
afterSetSpecialVariable(st, value) ==
  IF NoThrow(st) THEN Return(st, value)
  ELSE Return(handleVariableAccessError([st EXCEPT !.thrown = "none"]), value)

\* assignSpecialVariable with a denied write evaluating to the default value
assignSpecialVariableDropped(st, prefix, name, value) ==
  IF ~canWriteSpecialVariable(prefix)
  THEN Return(handleVariableAccessError(st), NumberValue(0))
  ELSE afterSetSpecialVariable(setSpecialVariable(st, prefix, name, value), value)

\* the permission check, then the write
assignSpecialVariable(st, prefix, name, value) ==
  IF ~canWriteSpecialVariable(prefix)
  THEN Return(handleVariableAccessError(st), value)
  ELSE afterSetSpecialVariable(setSpecialVariable(st, prefix, name, value), value)

\* the actual assignment; st.val is finalValue
assignFinalValue(st, left) ==
  IF ~NoThrow(st) THEN st
  ELSE IF left.k = "id" THEN Return(setVariable(st, left.s, st.val), st.val)
  ELSE IF left.k = "sv"
  THEN IF SpecialWellFormed(left.s)
       THEN assignSpecialVariable(CountReadOnlyWrite(st, SpecialPrefix(left.s)),
                                  SpecialPrefix(left.s), SpecialName(left.s), st.val)
       ELSE Throw(st, "Error: Invalid special variable format")
  ELSE invalidLeftHandSide(st)

performAssignment(st, left, rightValue, operator) ==
  assignFinalValue(finalValue(st, left, rightValue, operator), left)

-----------------------------------------------------------------------------
(* StringInterpolator: src/utils/StringInterpolator.ts.  Positions are      *)
(* counted from 1: a span {$body} has its brace at start and its closing    *)
(* brace at end.                                                            *)

\* [a-zA-Z]
AsciiLetters ==
  {"a", "b", "c", "d", "e", "f", "g", "h", "i", "j", "k", "l", "m", "n", "o", "p", "q",
   "r", "s", "t", "u", "v", "w", "x", "y", "z", "A", "B", "C", "D", "E", "F", "G", "H",
   "I", "J", "K", "L", "M", "N", "O", "P", "Q", "R", "S", "T", "U", "V", "W", "X", "Y",
   "Z"}

\* [一-龥], as far as the texts of the model go
CjkChars == {"力", "量"}

\* the position of the first } of t at or after i, 0 if there is none
RECURSIVE closingBrace(_, _)
closingBrace(t, i) ==
  IF i > Len(t) THEN 0 ELSE IF t[i] = "}" THEN i ELSE closingBrace(t, i + 1)

\* regex.exec in a loop, /\{\$([^}]*)\}/g, from position i on
RECURSIVE matchesFrom(_, _)
matchesFrom(t, i) ==
  IF i + 2 > Len(t) THEN <<>>
  ELSE IF t[i] = "{" /\ t[i + 1] = "$" /\ closingBrace(t, i + 2) # 0
  THEN <<[start |-> i, end |-> closingBrace(t, i + 2),
          expression |-> SubSeq(t, i + 2, closingBrace(t, i + 2) - 1)]>>
       \o matchesFrom(t, closingBrace(t, i + 2) + 1)
  ELSE matchesFrom(t, i + 1)

parseInterpolationExpressions(template) == matchesFrom(template, 1)

hasInterpolation(template) == matchesFrom(template, 1) # <<>>

\* isSpecialVariableExpression without its last test: anything but a word of letters
isSpecialVariableExpressionLoose(expression) ==
  /\ Len(expression) >= 2
  /\ expression[1] \in {"a", "r", "s", "d"}
  /\ \E i \in 2..Len(expression) : expression[i] \notin AsciiLetters

isSpecialVariableExpression(expression) ==
  IF Len(expression) < 2 THEN FALSE
  ELSE IF expression[1] \notin {"a", "r", "s", "d"} THEN FALSE
  ELSE IF \A i \in 2..Len(expression) : expression[i] \in AsciiLetters THEN FALSE
  ELSE \/ \E i \in 2..Len(expression) : expression[i] \in CjkChars
       \/ expression[2] = "_"

\* try { toString(getSpecialVariable(prefix, name)) } catch { '' }
evaluateSpecialVariable(st, expression) ==
  IF Len(expression) < 2 THEN <<>>
  ELSE IF NoThrow(getSpecialVariable(st, expression[1], Tail(expression)))
  THEN toString(getSpecialVariable(st, expression[1], Tail(expression)).val)
  ELSE <<>>

evaluateNormalVariable(st, expression) == toString(getVariable(st, expression))

\* evaluateExpression reading an empty body as the name of a local
evaluateTrimmedEmptyAsName(st, trimmedExpr) ==
  IF isSpecialVariableExpression(trimmedExpr)
  THEN evaluateSpecialVariable(st, trimmedExpr)
  ELSE evaluateNormalVariable(st, trimmedExpr)

\* evaluateExpression on the trimmed body
evaluateTrimmed(st, trimmedExpr) ==
  IF trimmedExpr = <<>> THEN <<>>
  ELSE IF isSpecialVariableExpression(trimmedExpr)
  THEN evaluateSpecialVariable(st, trimmedExpr)
  ELSE evaluateNormalVariable(st, trimmedExpr)

evaluateExpression(st, expression) == evaluateTrimmed(st, Trim(expression))

\* the loop of interpolate, from the last expression to the first
RECURSIVE replaceFrom(_, _, _, _)
replaceFrom(st, result, expressions, i) ==
  IF i = 0 THEN result
  ELSE replaceFrom(st,
                   SubSeq(result, 1, expressions[i].start - 1)
                     \o evaluateExpression(st, expressions[i].expression)
                     \o SubSeq(result, expressions[i].end + 1, Len(result)),
                   expressions, i - 1)

interpolate(st, template) ==
  IF parseInterpolationExpressions(template) = <<>> THEN template
  ELSE replaceFrom(st, template, parseInterpolationExpressions(template),
                   Len(parseInterpolationExpressions(template)))

\* text.slice(1, -1) if the token is quoted (the texts of the model have no escapes)
unquoted(text) ==
  IF /\ Len(text) >= 2
     /\ \/ text[1] = "\"" /\ text[Len(text)] = "\""
        \/ text[1] = "'" /\ text[Len(text)] = "'"
  THEN SubSeq(text, 2, Len(text) - 1)
  ELSE text

\* the quotes of a string token are removed, then its spans are interpolated
visitStringLiteral(st, text) ==
  Return(st, StringValue(IF hasInterpolation(unquoted(text))
                         THEN interpolate(st, unquoted(text))
                         ELSE unquoted(text)))

visitNumberLiteral(st, text) == Return(st, NumberValue(zeroIfNaN(parseFloat(text))))

visitSpecialVariable(st, text) ==
  IF SpecialWellFormed(text)
  THEN getSpecialVariable(st, SpecialPrefix(text), SpecialName(text))
  ELSE Return(st, NumberValue(0))

\* catch (error) { handleDiceError(...) }
catchDiceError(st) ==
  IF NoThrow(st) THEN st
  ELSE handleDiceError([st EXCEPT !.thrown = "none", !.diceFailures = @ + 1])

visitDiceExpression(st, text) == catchDiceError(evaluateDiceExpression(st, text))

\* the test of visitLogicalOrExpression's loop, mutated never to cut the chain short
orShortCircuitsNever(result) == FALSE

\* visitLogicalOrExpression returns early when the running result is truthy
orShortCircuits(result) == toBoolean(result)

\* the test of visitLogicalAndExpression's loop, mutated never to cut the chain short
andShortCircuitsNever(result) == FALSE

\* visitLogicalAndExpression returns early when the running result is falsy
andShortCircuits(result) == ~toBoolean(result)

\* the branches visitTernaryExpression visits, mutated to visit both
ternaryBranchesBoth(conditionValue) == <<2, 3>>

\* visitTernaryExpression visits expressions[0] or expressions[1] (children 2 and 3)
ternaryBranches(conditionValue) == IF conditionValue THEN <<2>> ELSE <<3>>

\* the chain evaluating to its last operand as it is
orResultRaw(leftBool, right) == right

\* result = { NUMBER, leftBool || rightBool ? 1 : 0 }
orResult(leftBool, right) ==
  IF ~NoThrow(right) THEN right
  ELSE Return(right, NumberValue(IF leftBool \/ toBoolean(right.val) THEN 1 ELSE 0))

\* result = { NUMBER, leftBool && rightBool ? 1 : 0 }
andResult(leftBool, right) ==
  IF ~NoThrow(right) THEN right
  ELSE Return(right, NumberValue(IF leftBool /\ toBoolean(right.val) THEN 1 ELSE 0))

\* the value a completed visit returned, recorded under the path of its node
Logged(st, path) == IF NoThrow(st) THEN [st EXCEPT !.log = (path :> st.val) @@ @] ELSE st

RECURSIVE visit(_, _, _)
RECURSIVE orLoop(_, _, _, _)
RECURSIVE andLoop(_, _, _, _)
RECURSIVE visitEach(_, _, _, _)

\* the loop of visitLogicalOrExpression from operand i on; st.val is the running result
orLoop(node, path, i, st) ==
  IF ~NoThrow(st) \/ i > Len(node.kids) THEN st
  ELSE IF orShortCircuits(st.val) THEN Return(st, NumberValue(1))
  ELSE orLoop(node, path, i + 1,
              orResult(toBoolean(st.val), visit(node.kids[i], Append(path, i), st)))

\* the loop of visitLogicalAndExpression from operand i on
andLoop(node, path, i, st) ==
  IF ~NoThrow(st) \/ i > Len(node.kids) THEN st
  ELSE IF andShortCircuits(st.val) THEN Return(st, NumberValue(0))
  ELSE andLoop(node, path, i + 1,
               andResult(toBoolean(st.val), visit(node.kids[i], Append(path, i), st)))

\* visit the children listed in order, one after the other; the last value is returned
visitEach(node, path, order, st) ==
  IF ~NoThrow(st) \/ order = <<>> THEN st
  ELSE visitEach(node, path, Tail(order),
                 visit(node.kids[Head(order)], Append(path, Head(order)), st))

\* the operator of a binary node applied to the values of its operands
binaryResult(node, l, r) ==
  IF ~NoThrow(r) THEN r
  ELSE IF node.op \in ArithmeticOps
  THEN performArithmeticOperation(r, l.val, r.val, node.op)
  ELSE performComparisonOperation(r, l.val, r.val, node.op)

\* the operator of a unary node applied to the value of its operand
unaryResult(node, o) ==
  IF ~NoThrow(o) THEN o
  ELSE CASE node.op = "!" -> Return(o, NumberValue(IF toBoolean(o.val) THEN 0 ELSE 1))
         [] node.op = "-" -> Return(o, NumberValue(0 - toNumber(o.val)))
         [] node.op = "+" -> Return(o, NumberValue(toNumber(o.val)))

\* visitBinary: the left operand, then the right one, then the operator
visitBinary(node, path, l) ==
  binaryResult(node, l, visit(node.kids[2], Append(path, 2), l))

\* visitTernaryExpression once the condition has its value
visitBranch(node, path, c) ==
  IF ~NoThrow(c) THEN c
  ELSE visitEach(node, path, ternaryBranches(toBoolean(c.val)), c)

\* visitAssignmentExpression once the right operand has its value
assignResult(node, rhs) ==
  IF ~NoThrow(rhs) THEN rhs
  ELSE performAssignment(rhs, node.kids[1], rhs.val, node.op)

\* visit: the visitor of each expression node
visit(node, path, st) ==
  IF ~NoThrow(st) THEN st
  ELSE Logged(
         CASE node.k = "num" -> visitNumberLiteral(st, node.s)
           [] node.k = "str" -> visitStringLiteral(st, node.s)
           [] node.k = "dice" -> visitDiceExpression(st, node.s)
           [] node.k = "id" -> Return(st, getVariable(st, node.s))
           [] node.k = "sv" -> visitSpecialVariable(st, node.s)
           [] node.k = "paren" -> visit(node.kids[1], Append(path, 1), st)
           [] node.k = "bin" ->
                visitBinary(node, path, visit(node.kids[1], Append(path, 1), st))
           [] node.k = "un" -> unaryResult(node, visit(node.kids[1], Append(path, 1), st))
           [] node.k = "or" -> orLoop(node, path, 2, visit(node.kids[1], Append(path, 1), st))
           [] node.k = "and" -> andLoop(node, path, 2, visit(node.kids[1], Append(path, 1), st))
           [] node.k = "tern" ->
                visitBranch(node, path, visit(node.kids[1], Append(path, 1), st))
           [] node.k = "asg" ->
                assignResult(node, visit(node.kids[2], Append(path, 2), st)),
         path)

-----------------------------------------------------------------------------
(* DicenicInterpreter, statements.  visitProgram, visitBlock and           *)
(* visitWhileStatement are loops around visit(); each keeps a frame on the *)
(* stack (its node, its index i or its loopCount, its local result) and    *)
(* one step runs one turn of the loop of the topmost frame.                *)

\* visitWhileStatement: const maxLoopCount = 10000
maxLoopCount == 10000

\* the loop test, mutated to let one more turn through
underCeilingOrAt(loopCount) == loopCount <= maxLoopCount

\* while (loopCount < maxLoopCount)
underCeiling(loopCount) == loopCount < maxLoopCount

Frame(k, node) ==
  [k |-> k, node |-> node, i |-> 1, loopCount |-> 0, runs |-> 0, result |-> NumberValue(0)]

Top(stk) == stk[Len(stk)]

Pop(stk) == SubSeq(stk, 1, Len(stk) - 1)

Push(m, frame) == [m EXCEPT !.stack = Append(@, frame)]

\* the if statement without a branch to run returns { NUMBER, 0 }: mutated to return lastValue
ifNoBranchValueKept(st) == st.lastValue

\* visitIfStatement, last line: the value returned when no branch was run
ifNoBranchValue(st) == NumberValue(0)

\* visit(child) has returned value to the loop of the topmost frame:
\* result = value; this.lastValue = result; then i++ or loopCount++
deliver(m, value) ==
  IF m.stack = <<>> THEN m
  ELSE LET top == Top(m.stack)
           next == IF top.k = "while"
                   THEN [top EXCEPT !.result = value, !.loopCount = @ + 1]
                   ELSE [top EXCEPT !.result = value, !.i = @ + 1]
       IN [st |-> [m.st EXCEPT !.lastValue = value],
           stack |-> [m.stack EXCEPT ![Len(m.stack)] = next]]

\* visitExpressionStatement has returned (or thrown) to the loop that visited it
deliverResult(m, s1) ==
  IF ~NoThrow(s1) THEN [m EXCEPT !.st = s1]
  ELSE deliver([m EXCEPT !.st = s1], s1.val)

RECURSIVE visitStatement(_, _, _)

\* visitIfStatement once the condition has its value (in c.val)
visitIfStatement(node, path, m, c) ==
  IF ~NoThrow(c) THEN [m EXCEPT !.st = c]
  ELSE IF toBoolean(c.val)
  THEN visitStatement(node.kids[2], Append(path, 2), [m EXCEPT !.st = c])
  ELSE IF node.op = "else" /\ Len(node.kids) > 2
  THEN visitStatement(node.kids[3], Append(path, 3), [m EXCEPT !.st = c])
  ELSE deliver([m EXCEPT !.st = [c EXCEPT !.skippedIf = TRUE]], ifNoBranchValue(c))

\* visitStatement / visitExpressionStatement, and the entry of visitBlock and
\* visitWhileStatement
visitStatement(node, path, m) ==
  IF ~NoThrow(m.st) THEN m
  ELSE CASE node.k = "expr" ->
              deliverResult(m, visit(node.kids[1], Append(path, 1), m.st))
         [] node.k = "if" ->
              visitIfStatement(node, path, m, visit(node.kids[1], Append(path, 1), m.st))
         [] node.k = "block" -> Push(m, Frame("block", node))
         [] node.k = "while" -> Push(m, Frame("while", node))

-----------------------------------------------------------------------------
(* The random draws a step may consume: one per die of every well-formed   *)
(* dice literal the step can visit.                                        *)

RECURSIVE DrawsIn(_)
RECURSIVE DrawsInKids(_, _)

DrawsInKids(kids, i) ==
  IF i > Len(kids) THEN 0 ELSE DrawsIn(kids[i]) + DrawsInKids(kids, i + 1)

DrawsIn(node) ==
  CASE node.k = "dice" ->
         LET parsed == parseDiceExpression(node.s)
         IN IF parsed.ok /\ validateDiceExpression(parsed.count, parsed.sides)
            THEN parsed.count ELSE 0
    [] node.k \in {"block", "while"} -> 0
    [] OTHER -> DrawsInKids(node.kids, 1)

\* the draws of Math.random() a step may see: every sequence of n grid points
\* for up to MaxDraws dice, and for more dice the sequences that repeat one point
Oracles(n) ==
  IF n <= MaxDraws THEN [1..n -> 0..(RandGrid - 1)]
  ELSE {[i \in 1..n |-> g] : g \in 0..(RandGrid - 1)}

-----------------------------------------------------------------------------
(* The entry point executeScript: src/index.ts.  Its result carries the    *)
(* messages of the errors; the model keeps the kind of each.               *)

\* executeScript has not come back yet
NoResult ==
  [outcome |-> "pending", result |-> <<>>, errors |-> <<>>, warnings |-> <<>>,
   success |-> FALSE]

\* success, mutated to ask for a clean run without warnings as well
scriptSuccessNoWarnings(errs, warns) == Len(errs) = 0 /\ Len(warns) = 0

\* success: errors.length === 0
scriptSuccess(errs, warns) == Len(errs) = 0

\* interpret() returned: the result, the handler's errors and warnings, success
returnResult(value, errs, warns) ==
  [outcome |-> "returned", result |-> toString(value), errors |-> errs,
   warnings |-> warns, success |-> scriptSuccess(errs, warns)]

\* the catch block, mutated to let the exception through to the caller
catchRethrown(message) ==
  [outcome |-> "threw", result |-> <<>>, errors |-> <<>>, warnings |-> <<>>,
   success |-> FALSE]

\* catch (error): a failure result that carries the message alone
catchResult(message) ==
  [outcome |-> "returned", result |-> <<>>, errors |-> <<message>>, warnings |-> <<>>,
   success |-> FALSE]

\* if (hasErrors): the script did not parse
syntaxErrorResult ==
  [outcome |-> "returned", result |-> <<>>, errors |-> <<"Syntax error in script">>,
   warnings |-> <<>>, success |-> FALSE]

-----------------------------------------------------------------------------
(* Snapshots: getSnapshot copies each Map with new Map(...).  The copy has *)
(* its own entries, but every entry still refers to the value object the   *)
(* context holds; shared lists the entries, <<pool, name>>, for which that *)
(* is so.  The pool of the local variables is named "v".                   *)

EntriesOf(pool, m) == {<<pool, k>> : k \in DOMAIN m}

\* the embedder holds no snapshot
NoSnapshot ==
  [taken |-> FALSE, attributes |-> EmptyMap, roleInfo |-> EmptyMap,
   systemInfo |-> EmptyMap, diceInfo |-> EmptyMap, variables |-> EmptyMap, shared |-> {}]

\* getSnapshot, mutated to copy the value objects as well
getSnapshotDeep(st) ==
  [taken |-> TRUE, attributes |-> st.attributes, roleInfo |-> st.roleInfo,
   systemInfo |-> st.systemInfo, diceInfo |-> st.diceInfo, variables |-> st.variables,
   shared |-> {}]

getSnapshot(st) ==
  [taken |-> TRUE, attributes |-> st.attributes, roleInfo |-> st.roleInfo,
   systemInfo |-> st.systemInfo, diceInfo |-> st.diceInfo, variables |-> st.variables,
   shared |-> EntriesOf("a", st.attributes) \cup EntriesOf("r", st.roleInfo)
              \cup EntriesOf("s", st.systemInfo) \cup EntriesOf("d", st.diceInfo)
              \cup EntriesOf("v", st.variables)]

\* Map.set or Map.clear on the context put other objects in these entries
Unshared(snap, entries) == [snap EXCEPT !.shared = @ \ entries]

\* clearVariables, mutated to clear the attribute pool as well
clearVariablesAndAttributes(st) == [st EXCEPT !.variables = EmptyMap, !.attributes = EmptyMap]

\* clearVariables: this.variables.clear()
clearVariables(st) == [st EXCEPT !.variables = EmptyMap]

-----------------------------------------------------------------------------
(* Steps *)

NoNode == Node("none", "", <<>>, <<>>)

\* the evaluation state at the start of a step
St(rng) ==
  [variables |-> variables, attributes |-> attributes, roleInfo |-> roleInfo,
   systemInfo |-> systemInfo, diceInfo |-> diceInfo,
   errors |-> errors, warnings |-> warnings, lastValue |-> lastValue,
   thrown |-> "none", val |-> NumberValue(0), rng |-> rng,
   log |-> <<>>, draws |-> 0, skippedIf |-> FALSE,
   roWrites |-> obs.roWrites, zeroDivs |-> obs.zeroDivs,
   diceFailures |-> obs.diceFailures,
   starved |-> obs.starved, inexact |-> obs.inexact]

Observed(st, act, node, loopRuns) ==
  [act |-> act, node |-> node, log |-> st.log, draws |-> st.draws,
   skippedIf |-> st.skippedIf, loopRuns |-> loopRuns,
   roWrites |-> st.roWrites, zeroDivs |-> st.zeroDivs,
   diceFailures |-> st.diceFailures,
   starved |-> st.starved, inexact |-> st.inexact,
   callThrew |-> FALSE]

\* the variables after a step that left the machine in m
Commit(m, act, node, loopRuns) ==
  /\ variables' = m.st.variables
  /\ attributes' = m.st.attributes
  /\ roleInfo' = m.st.roleInfo
  /\ systemInfo' = m.st.systemInfo
  /\ diceInfo' = m.st.diceInfo
  /\ errors' = m.st.errors
  /\ warnings' = m.st.warnings
  /\ lastValue' = m.st.lastValue
  /\ thrown' = m.st.thrown
  /\ status' = IF NoThrow(m.st) THEN "running" ELSE "thrown"
  /\ stack' = IF NoThrow(m.st) THEN m.stack ELSE <<>>
  /\ obs' = Observed(m.st, act, node, loopRuns)
  /\ scriptResult' = IF NoThrow(m.st) THEN scriptResult ELSE catchResult(m.st.thrown)
  /\ UNCHANGED <<program, config, snapshot>>

Running(k) == status = "running" /\ stack # <<>> /\ Top(stack).k = k

\* visitProgram: one turn of its loop
ProgramStep ==
  /\ Running("program")
  /\ Top(stack).i <= Len(Top(stack).node.kids)
  /\ \E rng \in Oracles(DrawsIn(Top(stack).node.kids[Top(stack).i])) :
       Commit(visitStatement(Top(stack).node.kids[Top(stack).i], <<>>,
                             [st |-> St(rng), stack |-> stack]),
              "ProgramStep", Top(stack).node.kids[Top(stack).i], 0)

\* visitProgram returns; interpret() returns toString(lastValue)
ProgramExit ==
  /\ Running("program")
  /\ Top(stack).i > Len(Top(stack).node.kids)
  /\ status' = "done"
  /\ stack' = <<>>
  /\ obs' = Observed(St(<<>>), "ProgramExit", NoNode, 0)
  /\ scriptResult' = returnResult(lastValue, errors, warnings)
  /\ UNCHANGED <<program, config, variables, attributes, roleInfo, systemInfo,
                 diceInfo, errors, warnings, lastValue, thrown, snapshot>>

\* visitBlock: one turn of its loop
BlockStep ==
  /\ Running("block")
  /\ Top(stack).i <= Len(Top(stack).node.kids)
  /\ \E rng \in Oracles(DrawsIn(Top(stack).node.kids[Top(stack).i])) :
       Commit(visitStatement(Top(stack).node.kids[Top(stack).i], <<>>,
                             [st |-> St(rng), stack |-> stack]),
              "BlockStep", Top(stack).node.kids[Top(stack).i], 0)

\* visitBlock returns its result to the loop that visited it
BlockExit ==
  /\ Running("block")
  /\ Top(stack).i > Len(Top(stack).node.kids)
  /\ Commit(deliver([st |-> St(<<>>), stack |-> Pop(stack)], Top(stack).result),
            "BlockExit", NoNode, 0)

\* the condition of the loop has its value in c.val: if truthy the body is visited
EnterBody(node, c) ==
  /\ ~NoThrow(c) \/ toBoolean(c.val)
  /\ Commit(visitStatement(node.kids[2], <<2>>,
                            [st |-> c, stack |-> [stack EXCEPT ![Len(stack)].runs = @ + 1]]),
            "WhileIter", node, 0)

\* the condition of the loop has its value in c.val: if falsy, break
LeaveLoop(node, c) ==
  /\ NoThrow(c) /\ ~toBoolean(c.val)
  /\ Commit(deliver([st |-> c, stack |-> Pop(stack)], Top(stack).result),
            "WhileBreak", node, Top(stack).runs)

\* visitWhileStatement: the condition is truthy (or throws) and the body is visited
WhileIter ==
  /\ Running("while")
  /\ underCeiling(Top(stack).loopCount)
  /\ \E rng \in Oracles(DrawsIn(Top(stack).node.kids[1]) + DrawsIn(Top(stack).node.kids[2])) :
       EnterBody(Top(stack).node, visit(Top(stack).node.kids[1], <<1>>, St(rng)))

\* visitWhileStatement: the condition is falsy, break; the result is returned
WhileBreak ==
  /\ Running("while")
  /\ underCeiling(Top(stack).loopCount)
  /\ \E rng \in Oracles(DrawsIn(Top(stack).node.kids[1])) :
       LeaveLoop(Top(stack).node, visit(Top(stack).node.kids[1], <<1>>, St(rng)))

\* visitWhileStatement: the loop test fails; if (loopCount >= maxLoopCount)
\* handleLoopError; then return
WhileCeiling ==
  /\ Running("while")
  /\ ~underCeiling(Top(stack).loopCount)
  /\ LET st == IF Top(stack).loopCount >= maxLoopCount
               THEN handleLoopError(St(<<>>)) ELSE St(<<>>)
     IN Commit(deliver([st |-> st, stack |-> Pop(stack)], Top(stack).result),
               "WhileCeiling", Top(stack).node, Top(stack).runs)


\* executeScript returns the failure result of a script that did not parse
SyntaxErrorReturn ==
  /\ status = "syntaxError"
  /\ status' = "rejected"
  /\ scriptResult' = syntaxErrorResult
  /\ obs' = Observed(St(<<>>), "SyntaxErrorReturn", NoNode, 0)
  /\ UNCHANGED <<program, config, stack, variables, attributes, roleInfo, systemInfo,
                 diceInfo, errors, warnings, lastValue, thrown, snapshot>>

\* the pools after a call of the embedder that left the context as in s1; a write
\* that went through put a new value object in the entry written
Called(s1, entry) ==
  /\ attributes' = s1.attributes
  /\ roleInfo' = s1.roleInfo
  /\ systemInfo' = s1.systemInfo
  /\ diceInfo' = s1.diceInfo
  /\ obs' = [Observed(St(<<>>), "CallSetSpecial", NoNode, 0) EXCEPT !.callThrew = ~NoThrow(s1)]
  /\ snapshot' = IF NoThrow(s1) THEN Unshared(snapshot, {entry}) ELSE snapshot

\* the embedder calls context.setSpecialVariable(prefix, name, value) after a run;
\* an Error it throws goes to the embedder
CallSetSpecial ==
  /\ status \in {"done", "thrown"}
  /\ \E prefix \in {"a", "r", "s", "d", "x", "R"} :
       Called(setSpecialVariable(St(<<>>), prefix, <<"n">>, NumberValue(7)),
              <<prefix, <<"n">>>>)
  /\ UNCHANGED <<program, config, status, stack, variables, errors, warnings,
                 lastValue, thrown, scriptResult>>

\* the embedder calls context.getSnapshot() after a run and keeps the result
CallGetSnapshot ==
  /\ status \in {"done", "thrown"}
  /\ snapshot' = getSnapshot(St(<<>>))
  /\ obs' = Observed(St(<<>>), "CallGetSnapshot", NoNode, 0)
  /\ UNCHANGED <<program, config, status, stack, variables, attributes, roleInfo,
                 systemInfo, diceInfo, errors, warnings, lastValue, thrown, scriptResult>>

\* the context after clearVariables left it as in s1
Cleared(s1) ==
  /\ variables' = s1.variables
  /\ attributes' = s1.attributes
  /\ roleInfo' = s1.roleInfo
  /\ systemInfo' = s1.systemInfo
  /\ diceInfo' = s1.diceInfo

\* the embedder calls context.clearVariables() after a run
CallClearVariables ==
  /\ status \in {"done", "thrown"}
  /\ Cleared(clearVariables(St(<<>>)))
  /\ snapshot' = Unshared(snapshot, EntriesOf("v", variables))
  /\ obs' = Observed(St(<<>>), "CallClearVariables", NoNode, 0)
  /\ UNCHANGED <<program, config, status, stack, errors, warnings, lastValue, thrown,
                 scriptResult>>

\* the embedder writes to the snapshot it holds: snapshot.attributes.set(name, 9)
SnapshotSet ==
  /\ snapshot.taken
  /\ \E name \in {<<"h">>, <<"n">>} :
       snapshot' = [Unshared(snapshot, {<<"a", name>>})
                      EXCEPT !.attributes = MapSet(@, name, NumberValue(9))]
  /\ obs' = Observed(St(<<>>), "SnapshotSet", NoNode, 0)
  /\ UNCHANGED <<program, config, status, stack, variables, attributes, roleInfo,
                 systemInfo, diceInfo, errors, warnings, lastValue, thrown, scriptResult>>

\* the embedder changes a value it reads from the snapshot in place:
\* snapshot.attributes.get(name).value = 9; an entry that still refers to the
\* object the context holds shows the change in the context as well
SnapshotMutate ==
  /\ snapshot.taken
  /\ \E name \in DOMAIN snapshot.attributes :
       /\ snapshot' = [snapshot EXCEPT !.attributes[name].num = 9]
       /\ attributes' = IF <<"a", name>> \in snapshot.shared
                        THEN [attributes EXCEPT ![name].num = 9]
                        ELSE attributes
  /\ obs' = Observed(St(<<>>), "SnapshotMutate", NoNode, 0)
  /\ UNCHANGED <<program, config, status, stack, variables, roleInfo, systemInfo,
                 diceInfo, errors, warnings, lastValue, thrown, scriptResult>>

-----------------------------------------------------------------------------
(* The scripts and settings the model runs *)

\* $ah %= 'ab'
SModZero == ExprStmt(Asg("%=", Sv(<<"$", "a", "h">>), Str(<<"'", "a", "b", "'">>)))

\* (0 && (y = 1)) || 1 || (x = 5)
SBoth ==
  ExprStmt(Or(<<Paren(And(<<Num(<<"0">>), Paren(Asg("=", Id(<<"y">>), Num(<<"1">>)))>>)),
                Num(<<"1">>),
                Paren(Asg("=", Id(<<"x">>), Num(<<"5">>)))>>))

\* x ? (y = 1) : ($rn = 6 / 0)
STernary ==
  ExprStmt(Tern(Id(<<"x">>),
                Paren(Asg("=", Id(<<"y">>), Num(<<"1">>))),
                Paren(Asg("=", Sv(<<"$", "r", "n">>), Bin("/", Num(<<"6">>), Num(<<"0">>))))))

\* if (x) y = 2
SIf == If(Id(<<"x">>), ExprStmt(Asg("=", Id(<<"y">>), Num(<<"2">>))))

\* 0d2
SBadDice == ExprStmt(Dice(<<"0", "d", "2">>))

\* 5
SFive == ExprStmt(Num(<<"5">>))

Statements ==
  {SModZero, SBoth, STernary, SIf, SBadDice, SFive,
   \* $rn = 'new'
   ExprStmt(Asg("=", Sv(<<"$", "r", "n">>), Str(<<"'", "n", "e", "w", "'">>))),
   \* $sv += 1
   ExprStmt(Asg("+=", Sv(<<"$", "s", "v">>), Num(<<"1">>))),
   \* x = 6 / y
   ExprStmt(Asg("=", Id(<<"x">>), Bin("/", Num(<<"6">>), Id(<<"y">>)))),
   \* y /= $sv
   ExprStmt(Asg("/=", Id(<<"y">>), Sv(<<"$", "s", "v">>))),
   \* 1 || (x = 5)
   ExprStmt(Or(<<Num(<<"1">>), Paren(Asg("=", Id(<<"x">>), Num(<<"5">>)))>>)),
   \* x || (y = 2) || 0d2
   ExprStmt(Or(<<Id(<<"x">>), Paren(Asg("=", Id(<<"y">>), Num(<<"2">>))),
                 Dice(<<"0", "d", "2">>)>>)),
   \* !x && ($dk = 1D2) && (6 / 0)
   ExprStmt(And(<<Un("!", Id(<<"x">>)),
                  Paren(Asg("=", Sv(<<"$", "d", "k">>), Dice(<<"1", "D", "2">>))),
                  Paren(Bin("/", Num(<<"6">>), Num(<<"0">>)))>>)),
   \* if (y > 1) { 3 } else $rn
   IfElse(Bin(">", Id(<<"y">>), Num(<<"1">>)),
          Block(<<ExprStmt(Num(<<"3">>))>>), ExprStmt(Sv(<<"$", "r", "n">>))),
   \* 2d
   ExprStmt(Dice(<<"2", "d">>)),
   \* x = 1D2 - 1
   ExprStmt(Asg("=", Id(<<"x">>), Bin("-", Dice(<<"1", "D", "2">>), Num(<<"1">>)))),
   \* while ($ah) { $rn = 1  $ah -= 1 }
   While(Sv(<<"$", "a", "h">>),
         Block(<<ExprStmt(Asg("=", Sv(<<"$", "r", "n">>), Num(<<"1">>))),
                 ExprStmt(Asg("-=", Sv(<<"$", "a", "h">>), Num(<<"1">>)))>>)),
   \* while (x < 2) x += 1
   While(Bin("<", Id(<<"x">>), Num(<<"2">>)), ExprStmt(Asg("+=", Id(<<"x">>), Num(<<"1">>)))),
   \* 5 = 3
   ExprStmt(Asg("=", Num(<<"5">>), Num(<<"3">>)))}

\* while (1) 5
PCeiling == <<While(Num(<<"1">>), SFive)>>

\* x = 1  while (x > 0) { }  x
PCeilingEmpty ==
  <<ExprStmt(Asg("=", Id(<<"x">>), Num(<<"1">>))),
    While(Bin(">", Id(<<"x">>), Num(<<"0">>)), Block(<<>>)),
    ExprStmt(Id(<<"x">>))>>

\* (x || 'ab') && $rn    x || ''    1 && 5
PChains ==
  <<ExprStmt(And(<<Paren(Or(<<Id(<<"x">>), Str(<<"'", "a", "b", "'">>)>>)),
                   Sv(<<"$", "r", "n">>)>>)),
    ExprStmt(Or(<<Id(<<"x">>), Str(<<"'", "'">>)>>)),
    ExprStmt(And(<<Num(<<"1">>), Num(<<"5">>)>>))>>

\* the settings of the handler: recovery on or off, a small limit or the default one
Configs == [enableRecovery : BOOLEAN, maxErrors : {SmallMaxErrors, DEFAULT_maxErrors}]

\* DEFAULT_ERROR_CONFIG
DefaultConfig == [enableRecovery |-> TRUE, maxErrors |-> DEFAULT_maxErrors]

\* every program of at most MaxStmts statements
ShortPrograms == UNION {[1..n -> Statements] : n \in 1..MaxStmts}

\* the short programs under every setting, the two never-ending loops and the
\* fully evaluated chains
Runs ==
  [stmts : ShortPrograms, config : Configs]
  \cup {[stmts |-> PCeiling, config |-> DefaultConfig],
        [stmts |-> PCeiling, config |-> [DefaultConfig EXCEPT !.enableRecovery = FALSE]],
        [stmts |-> PCeilingEmpty, config |-> DefaultConfig],
        [stmts |-> PChains, config |-> DefaultConfig]}

InitialObs ==
  [act |-> "Init", node |-> NoNode, log |-> <<>>, draws |-> 0,
   skippedIf |-> FALSE, loopRuns |-> 0, roWrites |-> 0, zeroDivs |-> 0,
   diceFailures |-> 0, starved |-> FALSE, inexact |-> FALSE,
   callThrew |-> FALSE]

InitialRoleInfo == (<<"n">> :> StringValue(<<"o", "l", "d">>))

InitialAttributes == (<<"h">> :> NumberValue(3))

\* 5 ): a script the parser reports an error for
PSyntaxError == <<SFive>>

\* executeScript: a context over the caller's pools, a fresh handler, the script
\* parsed; interpret(tree) is called if the parser reported no error
InitRun(run, parsed) ==
    /\ program = Node("program", "", <<>>, run.stmts)
    /\ config = run.config
    /\ status = IF parsed THEN "running" ELSE "syntaxError"
    /\ stack = IF parsed THEN <<Frame("program", Node("program", "", <<>>, run.stmts))>>
               ELSE <<>>
    /\ variables = EmptyMap
    /\ attributes = InitialAttributes
    /\ roleInfo = InitialRoleInfo
    /\ systemInfo = EmptyMap
    /\ diceInfo = EmptyMap
    /\ errors = <<>>
    /\ warnings = <<>>
    /\ lastValue = NumberValue(0)
    /\ thrown = "none"
    /\ obs = InitialObs
    /\ scriptResult = NoResult
    /\ snapshot = NoSnapshot

Init ==
  \E run \in Runs :
    \/ InitRun(run, TRUE)
    \/ run.stmts = PSyntaxError /\ InitRun(run, FALSE)

Next ==
  \/ SyntaxErrorReturn
  \/ ProgramStep
  \/ ProgramExit
  \/ BlockStep
  \/ BlockExit
  \/ WhileIter
  \/ WhileBreak
  \/ WhileCeiling
  \/ CallSetSpecial

Spec == Init /\ [][Next]_vars

\* The context and its snapshots in the hands of an embedder: the programs of one
\* statement under the default settings, then the calls of the embedder.
ContextRuns == {run \in Runs : Len(run.stmts) = 1 /\ run.config = DefaultConfig}

ContextInit ==
  \E run \in ContextRuns :
    \/ InitRun(run, TRUE)
    \/ run.stmts = PSyntaxError /\ InitRun(run, FALSE)

ContextNext ==
  \/ SyntaxErrorReturn
  \/ ProgramStep
  \/ ProgramExit
  \/ BlockStep
  \/ BlockExit
  \/ WhileIter
  \/ WhileBreak
  \/ WhileCeiling
  \/ CallSetSpecial
  \/ CallGetSnapshot
  \/ CallClearVariables
  \/ SnapshotSet
  \/ SnapshotMutate

ContextSpec == ContextInit /\ [][ContextNext]_vars

\* dice expressions of digits, d or D, digits: small ones, the limits of calculate and beyond
DiceLiterals ==
  {<<"1", "d", "1">>, <<"1", "d", "2">>, <<"1", "d", "3">>, <<"1", "d", "6">>,
   <<"2", "d", "1">>, <<"2", "d", "2">>, <<"2", "d", "3">>, <<"2", "d", "6">>,
   <<"3", "d", "1">>, <<"3", "d", "2">>, <<"3", "d", "3">>, <<"3", "d", "6">>,
   <<"2", "D", "3">>, <<"1", "D", "6">>, <<"0", "2", "d", "3">>,
   <<"1", "d", "1", "0", "0", "0", "0">>, <<"1", "d", "1", "0", "0", "0", "1">>,
   <<"0", "d", "2">>, <<"1", "d", "0">>, <<"1", "0", "0", "0", "d", "1">>,
   <<"1", "0", "0", "0", "d", "2">>, <<"1", "0", "0", "1", "d", "1">>,
   <<"1", "2", "d", "1">>}

\* the same with white space before or after
PaddedDiceLiterals ==
  {<<" ", "2", "d", "3">>, <<"2", "d", "3", " ">>, <<" ", "2", "D", "3", " ">>,
   <<"\t", "1", "d", "6">>, <<"1", "d", "6", "\n">>}

\* texts that are no dice expression
MalformedDiceLiterals ==
  {<<>>, <<"d", "6">>, <<"3", "d">>, <<"3", "x", "6">>, <<"a", "b", "c">>,
   <<"2", " ", "d", "3">>, <<"2", "d", " ", "3">>, <<"2", "d", "d", "3">>,
   <<"a", "2", "d", "3">>, <<"2", "d", "3", "x">>, <<"-", "3", "d", "6">>,
   <<"3", "d", "-", "6">>, <<"3", ".", "5", "d", "6">>, <<"3", "d", "6", ".", "5">>,
   <<"d">>, <<"2", "3">>, <<"2", "d", "3", "d", "4">>}

\* Dice expressions handed to the calculator: scripts of one dice literal
\* each, under every setting of the handler.
DiceRuns ==
  {[stmts |-> <<ExprStmt(Dice(text))>>, config |-> c] :
     text \in DiceLiterals \cup PaddedDiceLiterals \cup MalformedDiceLiterals,
     c \in Configs}

DiceInit == \E run \in DiceRuns : InitRun(run, TRUE)

DiceNext ==
  \/ ProgramStep
  \/ ProgramExit

DiceSpec == DiceInit /\ [][DiceNext]_vars

\* bodies of a span {$body}: words, names with a digit, an underscore or an ideograph
InterpolationBodies ==
  {<<"a", "h">>, <<"a", "1">>, <<"a">>, <<"x">>, <<"q">>, <<"a", "力">>,
   <<"a", "_", "h">>, <<"a", "h", "_">>, <<"a", "h", "力">>, <<"r", "_", "n">>,
   <<"r", "n">>, <<"s", "_", "v">>, <<"d", "力">>, <<"x", "力">>, <<"A", "力">>,
   <<" ", "a", "力", " ">>}

\* bodies that are empty once trimmed
EmptyBodies ==
  {<<>>, <<" ">>}

\* what a template has before and after its span
TemplateEnds ==
  {<<>>, <<"x", "=">>, <<"{", "$", "x", "}">>, <<"!">>, <<" ", "e", "n", "d">>}

\* pre{$body}post, as a quoted string token
Template(pre, body, post) ==
  <<"'">> \o pre \o <<"{", "$">> \o body \o <<"}">> \o post \o <<"'">>

\* the pools of the context the caller passes to executeScript for these scripts
InterpolationVariables ==
  (<<"a", "h">> :> NumberValue(11)) @@ (<<"a", "1">> :> NumberValue(12))
  @@ (<<"a">> :> NumberValue(13)) @@ (<<"x">> :> NumberValue(5))
  @@ (<<"a", "h", "_">> :> NumberValue(14)) @@ (<<"r", "n">> :> StringValue(<<"l">>))
  @@ (<<"A", "力">> :> NumberValue(15)) @@ (<<"x", "力">> :> NumberValue(16))

InterpolationAttributes ==
  InitialAttributes @@ (<<"1">> :> NumberValue(21)) @@ (<<"力">> :> NumberValue(22))
  @@ (<<"_", "h">> :> NumberValue(23)) @@ (<<"h", "_">> :> NumberValue(24))
  @@ (<<"h", "力">> :> NumberValue(25))

InterpolationRoleInfo == InitialRoleInfo @@ (<<"_", "n">> :> StringValue(<<"R">>))

\* String literals with a span: scripts of one string literal each, under every
\* setting of the handler, run on a context that has locals and attributes.
InterpolationRuns ==
  {[stmts |-> <<ExprStmt(Str(Template(pre, body, post)))>>, config |-> c] :
     pre \in TemplateEnds, body \in InterpolationBodies \cup EmptyBodies,
     post \in TemplateEnds, c \in Configs}

InterpolationInit ==
  \E run \in InterpolationRuns :
    /\ program = Node("program", "", <<>>, run.stmts)
    /\ config = run.config
    /\ status = "running"
    /\ stack = <<Frame("program", Node("program", "", <<>>, run.stmts))>>
    /\ variables = InterpolationVariables
    /\ attributes = InterpolationAttributes
    /\ roleInfo = InterpolationRoleInfo
    /\ systemInfo = EmptyMap
    /\ diceInfo = (<<"力">> :> DiceValue(4))
    /\ errors = <<>>
    /\ warnings = <<>>
    /\ lastValue = NumberValue(0)
    /\ thrown = "none"
    /\ obs = InitialObs
    /\ scriptResult = NoResult
    /\ snapshot = NoSnapshot

InterpolationNext ==
  \/ ProgramStep
  \/ ProgramExit

InterpolationSpec == InterpolationInit /\ [][InterpolationNext]_vars

-----------------------------------------------------------------------------
(* Payloads as IEEE 754 doubles: the integers of the model, the two        *)
(* infinities and NaN. The operators below are those of TypeConverter and  *)
(* performArithmeticOperation on operands whose text may spell Infinity;   *)
(* on finite operands they are the operators above. A quotient of a finite *)
(* number by an infinity is 0 (the sign of the zero is not kept).          *)

Finite(n) == [kind |-> "finite", n |-> n]
Infinity(sign) == [kind |-> "infinity", n |-> sign]
NaN == [kind |-> "NaN", n |-> 0]

InfinityText == <<"I", "n", "f", "i", "n", "i", "t", "y">>

StartsWith(t, p) == Len(t) >= Len(p) /\ SubSeq(t, 1, Len(p)) = p

\* parseFloat: after the blanks and the sign, the word Infinity or a run of digits
parseFloatIEEE(s) ==
  IF StartsWith(TrimStart(s), InfinityText) \/ StartsWith(TrimStart(s), <<"+">> \o InfinityText)
  THEN Infinity(1)
  ELSE IF StartsWith(TrimStart(s), <<"-">> \o InfinityText) THEN Infinity(0 - 1)
  ELSE IF parseFloat(s).nan THEN NaN
  ELSE Finite(parseFloat(s).n)

\* isNaN(parsed) ? 0 : parsed
zeroIfNaNIEEE(parsed) == IF parsed.kind = "NaN" THEN Finite(0) ELSE parsed

\* TypeConverter.toNumber
toNumberIEEE(value) ==
  CASE value.type = "NUMBER" -> value.num
    [] value.type = "STRING" -> zeroIfNaNIEEE(parseFloatIEEE(value.str))
    [] value.type = "DICE_EXPRESSION" -> value.num
    [] OTHER -> Finite(0)

\* Number.prototype.toString
numberToStringIEEE(d) ==
  CASE d.kind = "finite" -> numberToString(d.n)
    [] d.kind = "NaN" -> <<"N", "a", "N">>
    [] d.kind = "infinity" -> IF d.n < 0 THEN <<"-">> \o InfinityText ELSE InfinityText

\* TypeConverter.toString
toStringIEEE(value) ==
  IF value.type = "STRING" THEN value.str ELSE numberToStringIEEE(value.num)

Sign(d) ==
  IF d.kind = "NaN" THEN 0 ELSE IF d.n > 0 THEN 1 ELSE IF d.n < 0 THEN 0 - 1 ELSE 0

negate(d) == IF d.kind = "NaN" THEN NaN ELSE [d EXCEPT !.n = 0 - @]

\* a + b where a or b is not finite
sumNonFinite(a, b) ==
  IF a.kind = "NaN" \/ b.kind = "NaN" THEN NaN
  ELSE IF a.kind = "infinity" /\ b.kind = "infinity"
  THEN (IF a.n = b.n THEN a ELSE NaN)
  ELSE IF a.kind = "infinity" THEN a ELSE b

\* a op b where a or b is not finite and b is not 0
nonFinite(a, b, operator) ==
  CASE operator = "+" -> sumNonFinite(a, b)
    [] operator = "-" -> sumNonFinite(a, negate(b))
    [] operator = "*" ->
         IF Sign(a) * Sign(b) = 0 THEN NaN ELSE Infinity(Sign(a) * Sign(b))
    [] operator = "/" ->
         IF a.kind = "NaN" \/ b.kind = "NaN" \/ a.kind = b.kind THEN NaN
         ELSE IF a.kind = "infinity" THEN Infinity(Sign(a) * Sign(b))
         ELSE Finite(0)
    [] operator = "%" ->
         IF a.kind = "NaN" \/ b.kind = "NaN" \/ a.kind = "infinity" THEN NaN ELSE a
    [] OTHER -> Finite(0)

\* the finite result of the switch, as a double
asFinite(s) == [s EXCEPT !.val = NumberValue(Finite(s.val.num))]

\* the switch of performArithmeticOperation on two doubles
arithmeticSwitchIEEE(st, leftNum, rightNum, operator) ==
  IF leftNum.kind = "finite" /\ rightNum.kind = "finite"
  THEN asFinite(arithmeticSwitch(st, leftNum.n, rightNum.n, operator))
  ELSE IF operator \in {"/", "%"} /\ rightNum = Finite(0)
  THEN asFinite(divisionByZero(st, IF operator = "/" THEN "DivisionByZero"
                                    ELSE "ModuloByZero"))
  ELSE Return(st, NumberValue(nonFinite(leftNum, rightNum, operator)))

\* value.type === STRING && isNaN(parseFloat(value.value))
IsNonNumericStringIEEE(value) ==
  value.type = "STRING" /\ parseFloatIEEE(value.str).kind = "NaN"

performArithmeticOperationIEEE(st, left, right, operator) ==
  IF operator = "+" /\ (IsNonNumericStringIEEE(left) \/ IsNonNumericStringIEEE(right))
  THEN Return(st, StringValue(toStringIEEE(left) \o toStringIEEE(right)))
  ELSE arithmeticSwitchIEEE(st, toNumberIEEE(left), toNumberIEEE(right), operator)

\* the literals of the payload scripts: 0, 2, 'Infinity', '-Infinity', '7', 'abc', ''
PayloadLiterals ==
  {NumberValue(Finite(0)), NumberValue(Finite(2)),
   StringValue(InfinityText), StringValue(<<"-">> \o InfinityText),
   StringValue(<<"7">>), StringValue(<<"a", "b", "c">>), StringValue(<<>>)}

\* the operands a statement can name: a literal, or the variable x
PayloadOperands ==
  PayloadLiterals \cup {IF MapHas(variables, <<"x">>) THEN variables[<<"x">>]
                        ELSE NumberValue(Finite(0))}

\* the results the payload scripts keep within: short texts, small integers (and
\* the non-finite doubles), integral quotients
Representable(s1) ==
  /\ ~s1.inexact
  /\ Len(s1.val.str) <= MaxText
  /\ s1.val.type = "NUMBER" /\ s1.val.num.kind = "finite" => Abs(s1.val.num.n) <= MaxPayload

\* the state after the statement x = <value>
Assigned(s1, act, operator) ==
  /\ Representable(s1)
  /\ variables' = MapSet(variables, <<"x">>, s1.val)
  /\ lastValue' = s1.val
  /\ warnings' = s1.warnings
  /\ obs' = [InitialObs EXCEPT !.act = act, !.node = Node("assign", operator, <<>>, <<>>),
                               !.zeroDivs = s1.zeroDivs, !.inexact = s1.inexact]
  /\ UNCHANGED <<program, config, status, stack, attributes, roleInfo, systemInfo,
                 diceInfo, errors, thrown, scriptResult, snapshot>>

\* x = left operator right
AssignArithmetic ==
  /\ Len(warnings) < 2
  /\ \E left \in PayloadOperands, right \in PayloadOperands, operator \in ArithmeticOps :
       Assigned(performArithmeticOperationIEEE(St(<<>>), left, right, operator),
                "AssignArithmetic", operator)

\* x = -operand, x = +operand
AssignUnary ==
  /\ Len(warnings) < 2
  /\ \E operand \in PayloadOperands :
       \/ Assigned(Return(St(<<>>), NumberValue(negate(toNumberIEEE(operand)))),
                   "AssignUnary", "-")
       \/ Assigned(Return(St(<<>>), NumberValue(toNumberIEEE(operand))),
                   "AssignUnary", "+")

PayloadInit ==
  /\ program = Node("program", "", <<>>, <<>>)
  /\ config = DefaultConfig
  /\ status = "running"
  /\ stack = <<>>
  /\ variables = EmptyMap
  /\ attributes = EmptyMap
  /\ roleInfo = EmptyMap
  /\ systemInfo = EmptyMap
  /\ diceInfo = EmptyMap
  /\ errors = <<>>
  /\ warnings = <<>>
  /\ lastValue = NumberValue(Finite(0))
  /\ thrown = "none"
  /\ obs = InitialObs
  /\ scriptResult = NoResult
  /\ snapshot = NoSnapshot

PayloadNext ==
  \/ AssignArithmetic
  \/ AssignUnary

PayloadSpec == PayloadInit /\ [][PayloadNext]_vars

-----------------------------------------------------------------------------
(* Operand scripts: one statement applying an operator to the variables x  *)
(* and y, x holding a DiceResult                                           *)

ComparisonOps == {"==", "!=", ">", "<", ">=", "<="}

\* x op y, y op x; x || y, y || x, x && y, y && x; !x, -x, +x; x ? y : 0;
\* if (x) 1 else 2
OperandStatements ==
  {ExprStmt(Bin(op, Id(<<"x">>), Id(<<"y">>))) : op \in ArithmeticOps \cup ComparisonOps}
  \cup {ExprStmt(Bin(op, Id(<<"y">>), Id(<<"x">>))) : op \in ArithmeticOps \cup ComparisonOps}
  \cup {ExprStmt(Or(<<Id(<<"x">>), Id(<<"y">>)>>)), ExprStmt(Or(<<Id(<<"y">>), Id(<<"x">>)>>)),
        ExprStmt(And(<<Id(<<"x">>), Id(<<"y">>)>>)), ExprStmt(And(<<Id(<<"y">>), Id(<<"x">>)>>)),
        ExprStmt(Un("!", Id(<<"x">>))), ExprStmt(Un("-", Id(<<"x">>))),
        ExprStmt(Un("+", Id(<<"x">>))),
        ExprStmt(Tern(Id(<<"x">>), Id(<<"y">>), Num(<<"0">>))),
        IfElse(Id(<<"x">>), ExprStmt(Num(<<"1">>)), ExprStmt(Num(<<"2">>)))}

\* the payloads of x
DicePayloads == {0 - 2, 0, 1, 3}

\* the values of y
OtherOperands ==
  {NumberValue(0), NumberValue(2), NumberValue(3), DiceValue(3), DiceValue(2),
   StringValue(<<>>), StringValue(<<"3">>), StringValue(<<"0", "3">>),
   StringValue(<<"a", "b">>)}

OperandInit ==
  \E stmt \in OperandStatements, n \in DicePayloads, other \in OtherOperands :
    /\ program = Node("program", "", <<>>, <<stmt>>)
    /\ config = DefaultConfig
    /\ status = "running"
    /\ stack = <<Frame("program", Node("program", "", <<>>, <<stmt>>))>>
    /\ variables = (<<"x">> :> DiceValue(n)) @@ (<<"y">> :> other)
    /\ attributes = EmptyMap
    /\ roleInfo = EmptyMap
    /\ systemInfo = EmptyMap
    /\ diceInfo = EmptyMap
    /\ errors = <<>>
    /\ warnings = <<>>
    /\ lastValue = NumberValue(0)
    /\ thrown = "none"
    /\ obs = InitialObs
    /\ scriptResult = NoResult
    /\ snapshot = NoSnapshot

OperandNext ==
  \/ ProgramStep
  \/ ProgramExit

OperandSpec == OperandInit /\ [][OperandNext]_vars

-----------------------------------------------------------------------------
(* The embedder runs two scripts over the same pools. The constructor of   *)
(* ExecutionContext keeps the Map objects it is given (this.attributes =   *)
(* initialContext?.attributes || new Map(), and so on): the pools of the   *)
(* context are the caller's Maps, and a second executeScript with the same *)
(* options.context starts from what the first run left in them.            *)

\* x, $ah, $dk, $rn, $sv
WriteTargets ==
  {Id(<<"x">>), Sv(<<"$", "a", "h">>), Sv(<<"$", "d", "k">>),
   Sv(<<"$", "r", "n">>), Sv(<<"$", "s", "v">>)}

\* target op 1, target op 2, target op 1D2
WritingStatements ==
  {ExprStmt(Asg(op, target, rhs)) :
     op \in {"=", "+=", "-=", "*="}, target \in WriteTargets,
     rhs \in {Num(<<"1">>), Num(<<"2">>), Dice(<<"1", "D", "2">>)}}

\* the script of the second run: a read of one variable
ReadingStatements == {ExprStmt(target) : target \in WriteTargets}

EmbedderInit ==
  \E stmt \in WritingStatements \cup ReadingStatements :
    InitRun([stmts |-> <<stmt>>, config |-> DefaultConfig], TRUE)

\* executeScript(second, { context }) with the Maps the first run was given
RunAgain ==
  /\ status = "done"
  /\ program.kids[1] \in WritingStatements
  /\ \E stmt \in ReadingStatements :
       /\ program' = Node("program", "", <<>>, <<stmt>>)
       /\ stack' = <<Frame("program", Node("program", "", <<>>, <<stmt>>))>>
  /\ status' = "running"
  /\ errors' = <<>>
  /\ warnings' = <<>>
  /\ lastValue' = NumberValue(0)
  /\ thrown' = "none"
  /\ obs' = [InitialObs EXCEPT !.act = "RunAgain"]
  /\ scriptResult' = NoResult
  /\ UNCHANGED <<config, variables, attributes, roleInfo, systemInfo, diceInfo, snapshot>>

EmbedderNext ==
  \/ ProgramStep
  \/ ProgramExit
  \/ RunAgain

EmbedderSpec == EmbedderInit /\ [][EmbedderNext]_vars

-----------------------------------------------------------------------------
(* Countdown scripts: x = n  while (x) x -= 1, for n one below, at and one *)
(* above the ceiling of the loop                                           *)

Countdown(digits) ==
  <<ExprStmt(Asg("=", Id(<<"x">>), Num(digits))),
    While(Id(<<"x">>), ExprStmt(Asg("-=", Id(<<"x">>), Num(<<"1">>))))>>

CountdownStarts ==
  {<<"9", "9", "9", "9">>, <<"1", "0", "0", "0", "0">>, <<"1", "0", "0", "0", "1">>}

LoopInit ==
  \E digits \in CountdownStarts :
    InitRun([stmts |-> Countdown(digits), config |-> DefaultConfig], TRUE)

LoopNext ==
  \/ ProgramStep
  \/ WhileIter
  \/ WhileBreak
  \/ WhileCeiling
  \/ ProgramExit

LoopSpec == LoopInit /\ [][LoopNext]_vars

-----------------------------------------------------------------------------
(* Assignments whose right-hand side does something, to a literal and to  *)
(* a local: 5 = rhs, 'ab' = rhs, x = rhs, and the same with +=             *)

\* 3, 1D2, (x = 3), ($ah = 9), 6 / 0, 2d
EffectfulOperands ==
  {Num(<<"3">>), Dice(<<"1", "D", "2">>),
   Paren(Asg("=", Id(<<"x">>), Num(<<"3">>))),
   Paren(Asg("=", Sv(<<"$", "a", "h">>), Num(<<"9">>))),
   Bin("/", Num(<<"6">>), Num(<<"0">>)),
   Dice(<<"2", "d">>)}

EffectfulAssignmentStatements ==
  {ExprStmt(Asg(op, left, rhs)) :
     op \in {"=", "+="}, left \in {Num(<<"5">>), Str(<<"'", "a", "b", "'">>), Id(<<"x">>)},
     rhs \in EffectfulOperands}

EffectfulAssignmentInit ==
  \E stmt \in EffectfulAssignmentStatements, c \in Configs :
    InitRun([stmts |-> <<stmt>>, config |-> c], TRUE)

EffectfulAssignmentNext ==
  \/ ProgramStep
  \/ ProgramExit

EffectfulAssignmentSpec == EffectfulAssignmentInit /\ [][EffectfulAssignmentNext]_vars

\* the scripts never leave the domain of the model: quotients are integral and
\* every die had its draw
ModelDomainOK == ~obs.inexact /\ ~obs.starved

-----------------------------------------------------------------------------
(* Reading the observations of a step *)

IsPrefix(p, q) == Len(p) <= Len(q) /\ SubSeq(q, 1, Len(p)) = p

RECURSIVE NodeAt(_, _)
NodeAt(root, path) ==
  IF path = <<>> THEN root ELSE NodeAt(root.kids[Head(path)], Tail(path))

RECURSIVE PathsOf(_)
PathsOf(node) ==
  {<<>>} \cup UNION {{<<i>> \o p : p \in PathsOf(node.kids[i])} : i \in 1..Len(node.kids)}

\* the nodes a step visited to completion, and the value each returned
Visited == DOMAIN obs.log

VisitedUnder(p) == \E q \in Visited : IsPrefix(p, q)

\* the paths of the statement of the last step that lead to a node of kind k
PathsOfKind(k) == {p \in PathsOf(obs.node) : NodeAt(obs.node, p).k = k}

Count(seq, x) == Cardinality({i \in 1..Len(seq) : seq[i] = x})

-----------------------------------------------------------------------------
(* The read-only pools *)

\* C1: no run and no setSpecialVariable call changes the role pool or the system
\* pool: in every reachable state both hold exactly their initial entries.
C1_ReadOnlyPoolsUnchanged ==
  /\ roleInfo = InitialRoleInfo
  /\ systemInfo = EmptyMap

\* a script wrote to $r or $s, and then the embedder called setSpecialVariable on $r or $s
C1_Witness ==
  /\ obs.roWrites > 0
  /\ obs.act = "CallSetSpecial"
  /\ obs.callThrew

\* C2: every write a script attempts on an $r or $s variable, by = or by a compound
\* operator, has put one VariableAccess entry on the error list.
C2_DeniedWriteRecorded == Count(errors, "VariableAccess") = obs.roWrites

\* a denied write with recovery disabled: it was recorded before it was raised
C2_Witness ==
  /\ obs.roWrites > 0
  /\ ~config.enableRecovery
  /\ thrown = "VariableAccessError"

\* C3: the error list never holds more than maxErrors entries.
C3_ErrorsWithinMax == Len(errors) <= config.maxErrors

-----------------------------------------------------------------------------
(* Division and remainder by zero *)

LeftOperands ==
  {NumberValue(6), NumberValue(0), NumberValue(0 - 3), DiceValue(2),
   StringValue(<<"7">>), StringValue(<<"a", "b">>)}

\* the right operands toNumber takes to 0
ZeroOperands ==
  {NumberValue(0), DiceValue(0), StringValue(<<>>), StringValue(<<"0">>),
   StringValue(<<" ", "0">>), StringValue(<<"a", "b">>)}

\* the target of an assignment node can be written
Writable(left) ==
  \/ left.k = "id"
  \/ left.k = "sv" /\ SpecialWellFormed(left.s) /\ SpecialPrefix(left.s) \in {"a", "d"}

\* the visit of the node at p returned Number(0)
ReturnedZero(p) == p \in Visited /\ obs.log[p] = NumberValue(0)

\* the right operand of the node at p was evaluated, to a value that coerces to 0
RightOperandZero(p) ==
  /\ Append(p, 2) \in Visited
  /\ toNumber(obs.log[Append(p, 2)]) = 0

\* C4: / and % (and /= and %=) with a right operand that coerces to 0 yield Number(0),
\* add exactly one warning and no error, and raise nothing: for every pair of operands,
\* with the handler as every run leaves it; and every such node a step visited
\* returned Number(0), each with one warning on the list.
C4_ZeroDivisorYieldsZero ==
  /\ obs.act = "ProgramExit" =>
     \A left \in LeftOperands, right \in ZeroOperands, operator \in {"/", "%"} :
       LET out == performArithmeticOperation(St(<<>>), left, right, operator)
       IN /\ out.val = NumberValue(0)
          /\ Len(out.warnings) = Len(warnings) + 1
          /\ SubSeq(out.warnings, 1, Len(warnings)) = warnings
          /\ out.errors = errors
          /\ NoThrow(out)
  /\ \A p \in PathsOfKind("bin") :
       NodeAt(obs.node, p).op \in {"/", "%"} /\ RightOperandZero(p) => ReturnedZero(p)
  /\ \A p \in PathsOfKind("asg") :
       /\ NodeAt(obs.node, p).op \in {"/=", "%="}
       /\ Writable(NodeAt(obs.node, p).kids[1])
       /\ RightOperandZero(p)
       => ReturnedZero(p)
  /\ Count(warnings, "DivisionByZero") + Count(warnings, "ModuloByZero") = obs.zeroDivs
  /\ Count(errors, "Runtime") = 0

\* $ah %= 'ab' and then 5: the remainder by zero left one warning, and 5 was evaluated
C4_Witness ==
  /\ program.kids = <<SModZero, SFive>>
  /\ status = "done"
  /\ attributes[<<"h">>] = NumberValue(0)
  /\ warnings = <<"ModuloByZero">>
  /\ errors = <<>>
  /\ lastValue = NumberValue(5)

-----------------------------------------------------------------------------
(* Short circuits *)

\* k is "or" or "and": a value that decides a chain of that kind
Decides(k, value) == IF k = "or" THEN toBoolean(value) ELSE ~toBoolean(value)

\* in the chain at p, no operand right of a deciding operand was evaluated, and the
\* chain returned Number(1) for "or", Number(0) for "and"
ShortCircuited(k, p) ==
  \A i \in 1..Len(NodeAt(obs.node, p).kids) :
    Append(p, i) \in Visited /\ Decides(k, obs.log[Append(p, i)])
    => /\ \A j \in (i + 1)..Len(NodeAt(obs.node, p).kids) : ~VisitedUnder(Append(p, j))
       /\ p \in Visited
       /\ obs.log[p] = NumberValue(IF k = "or" THEN 1 ELSE 0)

\* C5: in every || chain and every && chain a step evaluated, once an operand was
\* truthy (for ||) or falsy (for &&) nothing to its right was visited, and the chain
\* returned Number(1) (for ||) or Number(0) (for &&).
C5_ChainsShortCircuit ==
  /\ \A p \in PathsOfKind("or") :
       Len(NodeAt(obs.node, p).kids) >= 2 => ShortCircuited("or", p)
  /\ \A p \in PathsOfKind("and") :
       Len(NodeAt(obs.node, p).kids) >= 2 => ShortCircuited("and", p)

\* (0 && (y = 1)) || 1 || (x = 5): both chains were cut, neither assignment happened
C5_Witness ==
  /\ program.kids = <<SBoth>>
  /\ obs.act = "ProgramStep"
  /\ obs.log[<<1, 1, 1>>] = NumberValue(0)
  /\ obs.log[<<1>>] = NumberValue(1)
  /\ variables = EmptyMap
  /\ lastValue = NumberValue(1)

-----------------------------------------------------------------------------
(* The ternary expression *)

\* the branch (child 2 or 3) the value of the condition selects
Selected(conditionValue) == IF toBoolean(conditionValue) THEN 2 ELSE 3

\* C6: of every ternary expression a step evaluated, the branch the condition did not
\* select was not visited at all; the selected one was, and its value is the value of
\* the expression.
C6_TernaryOneBranch ==
  \A p \in PathsOfKind("tern") :
    Append(p, 1) \in Visited
    => LET sel == Selected(obs.log[Append(p, 1)])
       IN /\ ~VisitedUnder(Append(p, 5 - sel))
          /\ VisitedUnder(Append(p, sel)) \/ thrown # "none"
          /\ p \in Visited
             => Append(p, sel) \in Visited /\ obs.log[p] = obs.log[Append(p, sel)]

\* x ? (y = 1) : ($rn = 6 / 0) with x truthy: y was assigned, and neither the division
\* by zero nor the denied write of the other branch left a trace
C6_Witness ==
  /\ obs.node = STernary
  /\ obs.act = "ProgramStep"
  /\ toBoolean(obs.log[<<1, 1>>])
  /\ variables[<<"y">>] = NumberValue(1)
  /\ obs.zeroDivs = 0
  /\ obs.roWrites = 0

-----------------------------------------------------------------------------
(* The iteration ceiling of while *)

(* Termination is shown by a variant: StepsLeft bounds the steps a running    *)
(* interpreter can still take, with 10,000 turns for every loop.             *)

Max(a, b) == IF a >= b THEN a ELSE b

RECURSIVE StepsFor(_)
RECURSIVE StepsFrom(_, _)

\* the steps to run the statements kids[i], kids[i+1], ...
StepsFrom(kids, i) ==
  IF i > Len(kids) THEN 0 ELSE StepsFor(kids[i]) + StepsFrom(kids, i + 1)

\* the steps to run a statement: the step that visits it, and for a block or a loop
\* the turns of its own loop and the step that leaves it
StepsFor(node) ==
  CASE node.k = "expr" -> 1
    [] node.k = "if" ->
         IF Len(node.kids) > 2
         THEN Max(StepsFor(node.kids[2]), StepsFor(node.kids[3]))
         ELSE StepsFor(node.kids[2])
    [] node.k = "block" -> 2 + StepsFrom(node.kids, 1)
    [] node.k = "while" -> 2 + 10000 * StepsFor(node.kids[2])

\* the steps left to a frame; a frame below the top is waiting for the statement it
\* is visiting, whose steps are counted by the frames above it
FrameSteps(frame, isTop) ==
  IF frame.k = "while"
  THEN (10000 - frame.loopCount - (IF isTop THEN 0 ELSE 1)) * StepsFor(frame.node.kids[2]) + 1
  ELSE StepsFrom(frame.node.kids, IF isTop THEN frame.i ELSE frame.i + 1) + 1

RECURSIVE StackSteps(_, _)
StackSteps(stk, n) ==
  IF n = 0 THEN 0 ELSE FrameSteps(stk[n], n = Len(stk)) + StackSteps(stk, n - 1)

StepsLeft == StackSteps(stack, Len(stack))

\* C7: a while loop stopped by the ceiling has run its body exactly 10,000 times and no
\* loop ever runs it more often; and every loop, hence every run, comes to an end: the
\* steps left, counting 10,000 turns for each loop, are never negative and every step
\* of a running interpreter lowers them.
C7_CeilingAtTenThousand ==
  /\ [](obs.act = "WhileCeiling" => obs.loopRuns = 10000)
  /\ [](\A i \in 1..Len(stack) : stack[i].runs <= 10000 /\ stack[i].loopCount <= 10000)
  /\ [](StepsLeft >= 0)
  /\ [][status = "running" => StepsLeft' < StepsLeft]_vars

\* x = 1  while (x > 0) { }  x: the loop with the empty body was stopped and the
\* statement after it was evaluated
C7_Witness ==
  /\ program.kids = PCeilingEmpty
  /\ status = "done"
  /\ Count(warnings, "Loop") = 1
  /\ lastValue = NumberValue(1)

\* C8: the step that stops a while loop at the ceiling appends one Loop warning to the
\* warnings and leaves the error list as it was.
C8_CeilingOneLoopWarning ==
  [][obs'.act = "WhileCeiling" => warnings' = Append(warnings, "Loop") /\ errors' = errors]_vars

\* while (1) 5 was stopped at the ceiling: one Loop warning, no error
C8_Witness ==
  /\ program.kids = PCeiling
  /\ obs.act = "WhileCeiling"
  /\ obs.loopRuns = maxLoopCount
  /\ warnings = <<"Loop">>
  /\ errors = <<>>

-----------------------------------------------------------------------------
(* The if statement without a branch to run *)

\* C9 as stated: an if statement with a falsy condition and no else leaves lastValue
\* as it was before the statement.
C9_LastValueKept == [][obs'.skippedIf => lastValue' = lastValue]_vars

\* C9: an if statement with a falsy condition and no else evaluates to Number(0), and
\* the loop that visited it sets lastValue to Number(0).
C9_LastValueReset == [][obs'.skippedIf => lastValue' = NumberValue(0)]_vars

\* 5  if (x) y = 2: the result of the program is "0", not "5"
C9_Witness ==
  /\ program.kids = <<SFive, SIf>>
  /\ obs.skippedIf
  /\ ~MapHas(variables, <<"y">>)
  /\ toString(lastValue) = <<"0">>

-----------------------------------------------------------------------------
(* Dice literals that cannot be rolled *)

\* the literal is malformed or out of bounds
InvalidDice(text) ==
  \/ ~parseDiceExpression(text).ok
  \/ ~validateDiceExpression(parseDiceExpression(text).count, parseDiceExpression(text).sides)

\* C10 as stated: under every setting of enableRecovery a dice literal that cannot be
\* rolled is recorded as a warning, never as an error, and never aborts the script.
C10_DiceNeverFatal ==
  /\ Count(warnings, "Dice") = obs.diceFailures
  /\ Count(errors, "Dice") = 0
  /\ thrown # "DiceError"

\* C10: with enableRecovery a dice literal that cannot be rolled evaluates to Number(0)
\* and is recorded as one warning, not as an error, and the script goes on; without
\* enableRecovery it is recorded as a Dice error and the DiceError aborts the script.
C10_DiceFatalWithoutRecovery ==
  /\ config.enableRecovery =>
       /\ Count(warnings, "Dice") = obs.diceFailures
       /\ Count(errors, "Dice") = 0
       /\ thrown # "DiceError"
       /\ \A p \in PathsOfKind("dice") :
            p \in Visited /\ InvalidDice(NodeAt(obs.node, p).s) => ReturnedZero(p)
  /\ ~config.enableRecovery =>
       /\ Count(warnings, "Dice") = 0
       /\ Count(errors, "Dice") = obs.diceFailures
       /\ obs.diceFailures > 0 => status = "thrown" /\ thrown = "DiceError"

\* 0d2 with recovery disabled: the script was aborted by the DiceError
C10_Witness ==
  /\ program.kids[1] = SBadDice
  /\ ~config.enableRecovery
  /\ status = "thrown"
  /\ thrown = "DiceError"
  /\ errors = <<"Dice">>
  /\ warnings = <<>>

-----------------------------------------------------------------------------
(* The result of executeScript *)

\* C11: every result executeScript returns has success true exactly when its errors
\* are empty, whatever its warnings are.
C11_SuccessIffNoErrors ==
  scriptResult.outcome = "returned" =>
    (scriptResult.success <=> scriptResult.errors = <<>>)

\* 0d2 with recovery: the result carries a warning and no error, and success is true
C11_Witness ==
  /\ program.kids = <<SBadDice>>
  /\ scriptResult.outcome = "returned"
  /\ scriptResult.warnings = <<"Dice">>
  /\ scriptResult.errors = <<>>
  /\ scriptResult.success

-----------------------------------------------------------------------------
(* The error ceiling and the recovery setting *)

\* C12: a step that appends an error and thereby takes the error list past maxErrors
\* raises "Too many errors", under either recovery setting.
C12_ExceedingRaisesTooManyErrors ==
  [][Len(errors') > config.maxErrors /\ errors' # errors
     => status' = "thrown" /\ thrown' = "TooManyErrors"]_vars

\* with recovery enabled, the error past the limit ended the run
C12_Witness ==
  /\ config.enableRecovery
  /\ Len(errors) = config.maxErrors + 1
  /\ status = "thrown"
  /\ thrown = "TooManyErrors"

\* the kinds of error the handler raises at once when recovery is disabled
RaisedKinds == {"Syntax", "Runtime", "VariableAccess"}

\* the handler, called with recovery disabled, recorded the error and raised it
RaisedAtOnce(out, kind, exception) ==
  /\ out.errors = Append(errors, kind)
  /\ out.thrown = exception

\* C13: with recovery disabled, the first Syntax, Runtime or VariableAccess error is
\* raised where it occurs: each of the three handlers records its error and raises
\* it; a run that recorded one has been left at once, with that one error; and after
\* a run was left no step of the script happens: the variables, the last value and
\* the handler stay as they are, and the pools change by the embedder's calls only.
C13_RaisedAtOnceWithoutRecovery ==
  /\ [](~config.enableRecovery /\ obs.act = "ProgramExit" =>
          /\ RaisedAtOnce(handleSyntaxError(St(<<>>)), "Syntax", "SyntaxError")
          /\ RaisedAtOnce(handleRuntimeError(St(<<>>)), "Runtime", "RuntimeError")
          /\ RaisedAtOnce(handleVariableAccessError(St(<<>>)), "VariableAccess",
                          "VariableAccessError"))
  /\ [](~config.enableRecovery /\ errors # <<>> /\ errors[1] \in RaisedKinds =>
          /\ status = "thrown"
          /\ stack = <<>>
          /\ errors = <<"VariableAccess">>
          /\ thrown = "VariableAccessError")
  /\ [][status = "thrown" =>
          /\ status' = "thrown"
          /\ <<variables, lastValue, errors, warnings, thrown>>' =
               <<variables, lastValue, errors, warnings, thrown>>
          /\ obs'.act # "CallSetSpecial" =>
               <<attributes, roleInfo, systemInfo, diceInfo>>' =
                 <<attributes, roleInfo, systemInfo, diceInfo>>]_vars

\* $rn = 'new' and then 5, recovery disabled: the write was raised and 5 was not run
C13_Witness ==
  /\ Len(program.kids) = 2
  /\ program.kids[2] = SFive
  /\ ~config.enableRecovery
  /\ obs.act = "ProgramStep"
  /\ status = "thrown"
  /\ thrown = "VariableAccessError"
  /\ errors = <<"VariableAccess">>
  /\ lastValue = NumberValue(0)

-----------------------------------------------------------------------------
(* How a run that was left reaches the caller of executeScript *)

-----------------------------------------------------------------------------
(* Reading a variable that is absent *)

\* what the statement says an absent special variable of a pool reads as
AbsentDefault(prefix) ==
  IF prefix \in {"r", "s"} THEN StringValue(<<>>) ELSE NumberValue(0)

\* the variable a node names is absent from the context (no script removes a
\* variable, so one absent after a step was absent when the step read it)
AbsentNow(node) ==
  CASE node.k = "id" -> ~MapHas(variables, node.s)
    [] node.k = "sv" ->
         /\ SpecialWellFormed(node.s)
         /\ ~MapHas(getStorageByPrefix(St(<<>>), SpecialPrefix(node.s)), SpecialName(node.s))
    [] OTHER -> FALSE

DefaultOf(node) ==
  IF node.k = "sv" THEN AbsentDefault(SpecialPrefix(node.s)) ELSE NumberValue(0)

\* reads of a local and of a variable of each pool, by several names
VariableReads ==
  {Id(name) : name \in {<<"x">>, <<"y">>, <<"q">>}}
  \cup {Sv(<<"$", prefix>> \o name) :
          prefix \in {"a", "r", "s", "d"}, name \in {<<"h">>, <<"n">>, <<"v">>, <<"k">>, <<"q">>}}

\* the read returned its value without an exception and without a diagnostic
ReadsAs(out, value) ==
  /\ NoThrow(out)
  /\ out.val = value
  /\ out.errors = errors
  /\ out.warnings = warnings

\* C15: reading an absent variable never raises: every identifier and special
\* variable a step read whose variable is absent returned Number(0) for a local
\* and for $a and $d, and String("") for $r and $s; and in the context every
\* finished script leaves, a read of any absent variable returns that default
\* with no exception, error or warning.
C15_AbsentReadsAsDefault ==
  /\ \A p \in (PathsOfKind("id") \cup PathsOfKind("sv")) \cap Visited :
       AbsentNow(NodeAt(obs.node, p)) => obs.log[p] = DefaultOf(NodeAt(obs.node, p))
  /\ obs.act = "ProgramExit" =>
       \A node \in VariableReads :
         AbsentNow(node) => ReadsAs(visit(node, <<>>, St(<<>>)), DefaultOf(node))

\* y /= $sv with no $sv in the system pool: the read returned String("")
C15_Witness ==
  /\ obs.act = "ProgramStep"
  /\ obs.node = ExprStmt(Asg("/=", Id(<<"y">>), Sv(<<"$", "s", "v">>)))
  /\ ~MapHas(systemInfo, <<"v">>)
  /\ <<1, 2>> \in Visited
  /\ obs.log[<<1, 2>>] = StringValue(<<>>)
  /\ status = "running"

-----------------------------------------------------------------------------
(* A denied write with recovery enabled *)

\* an assignment whose target is a well-formed $r or $s variable
ReadOnlyTarget(node) ==
  /\ node.k = "asg"
  /\ node.kids[1].k = "sv"
  /\ SpecialWellFormed(node.kids[1].s)
  /\ SpecialPrefix(node.kids[1].s) \in {"r", "s"}

\* the value the assignment would have stored: the right-hand value for =, the
\* operator applied to the variable's value and the right-hand value otherwise
\* (no step changes a read-only pool, so the variable's value is the one it had)
WouldBeValue(node, rightValue) ==
  IF node.op = "=" THEN rightValue
  ELSE performArithmeticOperation(
         St(<<>>),
         getSpecialVariable(St(<<>>), SpecialPrefix(node.kids[1].s),
                            SpecialName(node.kids[1].s)).val,
         rightValue, BinaryOf(node.op)).val

\* every denied write that returned evaluated to the would-be value
DeniedWriteValued ==
  \A p \in PathsOfKind("asg") \cap Visited :
    ReadOnlyTarget(NodeAt(obs.node, p))
      => obs.log[p] = WouldBeValue(NodeAt(obs.node, p), obs.log[Append(p, 2)])

-----------------------------------------------------------------------------
(* The value of a fully evaluated logical chain *)

\* the operands of the chain at p were all evaluated
FullyEvaluated(p) ==
  \A i \in 1..Len(NodeAt(obs.node, p).kids) : Append(p, i) \in Visited

\* the truth of the chain at p from the truthiness of its operands
ChainTruth(k, p) ==
  IF k = "or"
  THEN \E i \in 1..Len(NodeAt(obs.node, p).kids) : toBoolean(obs.log[Append(p, i)])
  ELSE \A i \in 1..Len(NodeAt(obs.node, p).kids) : toBoolean(obs.log[Append(p, i)])

\* C17: a || or && chain of two or more operands whose operands were all
\* evaluated evaluates to Number(1) or Number(0) according to the truthiness of
\* its operands, never to the value of an operand as it is.
C17_ChainYieldsOneOrZero ==
  \A k \in {"or", "and"} :
    \A p \in PathsOfKind(k) \cap Visited :
      Len(NodeAt(obs.node, p).kids) >= 2 /\ FullyEvaluated(p)
        => obs.log[p] = NumberValue(IF ChainTruth(k, p) THEN 1 ELSE 0)

\* (x || 'ab') && $rn with x absent and $rn = 'old': both chains were evaluated to
\* the end, their last operands are the strings 'ab' and 'old', both are Number(1)
C17_Witness ==
  /\ obs.act = "ProgramStep"
  /\ obs.node = PChains[1]
  /\ obs.log[<<1, 1, 1, 2>>] = StringValue(<<"a", "b">>)
  /\ obs.log[<<1, 1, 1>>] = NumberValue(1)
  /\ obs.log[<<1, 2>>] = StringValue(<<"o", "l", "d">>)
  /\ obs.log[<<1>>] = NumberValue(1)

-----------------------------------------------------------------------------
(* An assignment to something that is neither an identifier nor a special variable *)

InvalidLeftHandSide == "Error: Invalid left-hand side in assignment"

\* left-hand sides that are neither: 5, (x), 'ab', 1D2
InvalidTargets ==
  {Num(<<"5">>), Paren(Id(<<"x">>)), Str(<<"'", "a", "b", "'">>), Dice(<<"1", "D", "2">>)}

\* the assignment was left by the exception and stored nothing
Rejected(out) ==
  /\ out.thrown = InvalidLeftHandSide
  /\ out.variables = variables
  /\ <<out.attributes, out.roleInfo, out.systemInfo, out.diceInfo>> =
       <<attributes, roleInfo, systemInfo, diceInfo>>

-----------------------------------------------------------------------------
(* The context, its snapshot and clearVariables *)

\* the five pools of the context, and the five pools of the snapshot
ContextPools == <<variables, attributes, roleInfo, systemInfo, diceInfo>>

SnapshotPools ==
  <<snapshot.variables, snapshot.attributes, snapshot.roleInfo, snapshot.systemInfo,
    snapshot.diceInfo>>

\* C19: a snapshot is an independent deep copy: no later write to the context
\* (setSpecialVariable, clearVariables) changes a snapshot taken before, and no
\* change made to the snapshot (an entry set, a value changed in place) changes
\* the context.
C19_SnapshotIndependent ==
  [][/\ snapshot.taken /\ obs'.act \in {"CallSetSpecial", "CallClearVariables"}
          => SnapshotPools' = SnapshotPools
     /\ obs'.act \in {"SnapshotSet", "SnapshotMutate"}
          => ContextPools' = ContextPools]_vars

\* C20: clearVariables removes every local variable and leaves the four special
\* pools with exactly the entries they had.
C20_ClearKeepsSpecialPools ==
  [][obs'.act = "CallClearVariables"
       => /\ variables' = EmptyMap
          /\ <<attributes, roleInfo, systemInfo, diceInfo>>' =
               <<attributes, roleInfo, systemInfo, diceInfo>>]_vars

\* x = 1D2 - 1 assigned x and the embedder set $dn; after clearVariables no local
\* is left and the pools hold what they held
C20_Witness ==
  /\ program.kids = <<ExprStmt(Asg("=", Id(<<"x">>), Bin("-", Dice(<<"1", "D", "2">>), Num(<<"1">>))))>>
  /\ status = "done"
  /\ obs.act = "CallClearVariables"
  /\ variables = EmptyMap
  /\ attributes = InitialAttributes
  /\ roleInfo = InitialRoleInfo
  /\ diceInfo = (<<"n">> :> NumberValue(7))

-----------------------------------------------------------------------------
(* Prefixes other than a and d *)

\* the prefixes other than a and d a caller can pass: the read-only two, and
\* strings that name no pool (x, upper-case R and A, the empty string)
ClosedPrefixes == {"r", "s", "x", "R", "A", ""}

\* the call threw and every pool it was given is as it was
StoredNothing(out) ==
  /\ ~NoThrow(out)
  /\ <<out.variables, out.attributes, out.roleInfo, out.systemInfo, out.diceInfo>> =
       <<variables, attributes, roleInfo, systemInfo, diceInfo>>

\* C21: for every prefix other than a and d, the prefixes outside a, r, s, d
\* included, canWriteSpecialVariable is false and setSpecialVariable stores nothing
\* in any pool: on the context every run leaves, whatever calls came before, the
\* call throws and all five pools stay as they are; and a setSpecialVariable call of
\* the embedder that threw changed no pool.
C21_OtherPrefixesFailClosed ==
  /\ [](\A prefix \in ClosedPrefixes : ~canWriteSpecialVariable(prefix))
  /\ [](status \in {"done", "thrown"} =>
          \A prefix \in ClosedPrefixes : \A name \in {<<"n">>, <<"h">>} :
            StoredNothing(setSpecialVariable(St(<<>>), prefix, name, NumberValue(7))))
  /\ [][obs'.act = "CallSetSpecial" /\ obs'.callThrew =>
          <<variables, attributes, roleInfo, systemInfo, diceInfo>>' =
            <<variables, attributes, roleInfo, systemInfo, diceInfo>>]_vars

\* after a run, a setSpecialVariable call with a prefix other than a and d threw,
\* and the pools hold what the context was created with
C21_Witness ==
  /\ status = "done"
  /\ obs.act = "CallSetSpecial"
  /\ obs.callThrew
  /\ attributes = InitialAttributes
  /\ roleInfo = InitialRoleInfo
  /\ systemInfo = EmptyMap
  /\ diceInfo = EmptyMap

-----------------------------------------------------------------------------
(* The dice calculator *)

\* the dice literal of the statement the last step ran, and what the calculator
\* reads from it
DiceText == obs.node.kids[1].s

DiceStep == obs.act = "ProgramStep" /\ obs.node.k = "expr" /\ obs.node.kids[1].k = "dice"

\* C22: for every count from 1 to 1000 and every number of sides from 1 to 10000,
\* the roll is an integer from count to count * sides, whatever the draws of
\* Math.random() are; the dice literal evaluates to it as a DiceResult and nothing
\* is recorded.
C22_RollWithinRange ==
  DiceStep /\ parseDiceExpression(DiceText).ok =>
    LET count == parseDiceExpression(DiceText).count
        sides == parseDiceExpression(DiceText).sides
    IN count \in 1..1000 /\ sides \in 1..10000
         => /\ status = "running"
            /\ lastValue.type = "DICE_EXPRESSION"
            /\ lastValue.num \in count..(count * sides)
            /\ obs.draws = count
            /\ errors = <<>> /\ warnings = <<>>

\* 1000d2 with every draw at the top of the grid: the roll is 2000, the upper end
\* of the range for the largest count
C22_Witness ==
  /\ DiceStep
  /\ DiceText = <<"1", "0", "0", "0", "d", "2">>
  /\ lastValue = DiceValue(2000)
  /\ obs.draws = 1000

\* text is one or more digits, then d or D, then one or more digits, and no more
ExactlyDice(text) ==
  \E i \in 2..(Len(text) - 1) :
    /\ text[i] \in {"d", "D"}
    /\ \A j \in 1..Len(text) : j # i => IsDigit(text[j])

\* the step recorded the failure of the expression: a warning with recovery, the
\* DiceError without
DiceRejected ==
  /\ obs.diceFailures = 1
  /\ obs.draws = 0
  /\ IF config.enableRecovery
     THEN warnings = <<"Dice">> /\ lastValue = NumberValue(0)
     ELSE thrown = "DiceError"

\* C23 (as stated): parseDiceExpression rejects every string that is not exactly
\* digits, d or D, digits, with nothing before or after.
C23_RejectsAllButExact ==
  DiceStep /\ ~ExactlyDice(DiceText)
    => ~parseDiceExpression(DiceText).ok /\ DiceRejected

\* C23 (amended): parseDiceExpression removes the white space around the string
\* first; it rejects every string whose trimmed text is not exactly digits, d or D,
\* digits, and accepts every other string with the two numbers the digits write.
C23_RejectsAllButTrimmedExact ==
  DiceStep =>
    /\ parseDiceExpression(DiceText).ok <=> ExactlyDice(Trim(DiceText))
    /\ ~ExactlyDice(Trim(DiceText)) => DiceRejected
    /\ ExactlyDice(DiceText) =>
         /\ parseDiceExpression(DiceText).count = DigitsValue(DigitPrefix(DiceText), 0)
         /\ parseDiceExpression(DiceText).sides =
              DigitsValue(SubSeq(DiceText, Len(DigitPrefix(DiceText)) + 2, Len(DiceText)), 0)

\* " 2D3 " was accepted and rolled
C23_Witness ==
  /\ DiceStep
  /\ DiceText = <<" ", "2", "D", "3", " ">>
  /\ parseDiceExpression(DiceText) = [ok |-> TRUE, count |-> 2, sides |-> 3]
  /\ lastValue.type = "DICE_EXPRESSION"
  /\ obs.draws = 2

-----------------------------------------------------------------------------
(* String interpolation *)

\* the last step ran the string literal pre{$body}post
RanTemplate(pre, body, post) ==
  /\ obs.act = "ProgramStep"
  /\ obs.node = ExprStmt(Str(Template(pre, body, post)))

\* what an end of a template becomes: the span {$x} the value of x, text itself
EndValue(text) ==
  IF text = <<"{", "$", "x", "}">> THEN toString(getVariable(St(<<>>), <<"x">>)) ELSE text

\* the two ways a body is resolved
AsSpecial(body) == toString(getSpecialVariable(St(<<>>), body[1], Tail(body)).val)

AsLocal(body) == toString(getVariable(St(<<>>), body))

\* the rule as stated: length at least 2, a first character among a, r, s, d, and
\* a remainder that is not made up of ASCII letters only
StatedSpecial(body) ==
  /\ Len(body) >= 2
  /\ body[1] \in {"a", "r", "s", "d"}
  /\ ~(\A i \in 2..Len(body) : body[i] \in AsciiLetters)

\* the rule of the code: length at least 2, a first character among a, r, s, d, and
\* a remainder that holds an ideograph or begins with an underscore
IdeographOrUnderscore(body) ==
  /\ Len(body) >= 2
  /\ body[1] \in {"a", "r", "s", "d"}
  /\ \/ \E i \in 2..Len(body) : body[i] \in {"力", "量"}
     \/ body[2] = "_"

\* the template evaluated to its ends around the body resolved by the rule
ResolvedBy(special, pre, body, post) ==
  lastValue =
    StringValue(EndValue(pre)
                \o (IF special THEN AsSpecial(Trim(body)) ELSE AsLocal(Trim(body)))
                \o EndValue(post))

C25_EmptySpanWarns ==
  \A pre \in TemplateEnds, body \in EmptyBodies, post \in TemplateEnds :
    RanTemplate(pre, body, post)
      => /\ lastValue = StringValue(EndValue(pre) \o EndValue(post))
         /\ warnings # <<>>

\* C25 (amended): a span with an empty body is replaced by the empty string and
\* nothing is recorded, neither a warning nor an error, while the rest of the
\* template is still interpolated.
C25_EmptySpanSilent ==
  \A pre \in TemplateEnds, body \in EmptyBodies, post \in TemplateEnds :
    RanTemplate(pre, body, post)
      => /\ lastValue = StringValue(EndValue(pre) \o EndValue(post))
         /\ warnings = <<>>
         /\ errors = <<>>
         /\ status = "running"

\* {$x}{$} end with x = 5: the empty span is gone, the other span was interpolated
C25_Witness ==
  /\ RanTemplate(<<"{", "$", "x", "}">>, <<>>, <<" ", "e", "n", "d">>)
  /\ lastValue = StringValue(<<"5", " ", "e", "n", "d">>)
  /\ warnings = <<>>

-----------------------------------------------------------------------------
(* Payloads *)

\* a Number or a DiceResult whose payload is an infinity or NaN
NonFinitePayload(value) ==
  value.type \in {"NUMBER", "DICE_EXPRESSION"} /\ value.num.kind # "finite"

\* C26: every Number and every DiceResult that is stored in the variable pool, held
\* in lastValue or produced by an operator or a converter has a finite payload.
C26_PayloadsFinite ==
  /\ ~NonFinitePayload(lastValue)
  /\ \A name \in DOMAIN variables : ~NonFinitePayload(variables[name])

-----------------------------------------------------------------------------
(* DiceResult operands *)

\* the state the operand script started from, with the DiceResult in x replaced by
\* a Number of the same payload
PlainOperandState ==
  [St(<<>>) EXCEPT !.variables = MapSet(variables, <<"x">>,
                                        NumberValue(variables[<<"x">>].num)),
                   !.warnings = <<>>, !.lastValue = NumberValue(0),
                   !.zeroDivs = 0, !.inexact = FALSE]

\* what the statement of the last step does from that state
PlainOutcome ==
  visitStatement(obs.node, <<>>,
                 [st |-> PlainOperandState, stack |-> <<Frame("program", program)>>]).st

\* C27: replacing a DiceResult operand by a Number of the same payload changes the
\* result of no arithmetic, ordering, equality, logical or unary operation and of
\* no boolean coercion (nor the warnings the operation records).
C27_DiceBehavesAsNumber ==
  (obs.act = "ProgramStep" /\ ~obs.inexact /\ variables[<<"x">>].type = "DICE_EXPRESSION")
    => /\ status = "running"
       /\ lastValue = PlainOutcome.lastValue
       /\ warnings = PlainOutcome.warnings
       /\ errors = <<>>

\* x == y with the DiceResult 3 in x and the Number 3 in y: equal, as 3 == 3 is
C27_Witness ==
  /\ obs.act = "ProgramStep"
  /\ obs.node = ExprStmt(Bin("==", Id(<<"x">>), Id(<<"y">>)))
  /\ variables[<<"x">>] = DiceValue(3)
  /\ variables[<<"y">>] = NumberValue(3)
  /\ lastValue = NumberValue(1)

-----------------------------------------------------------------------------
(* The caller's pools *)

\* the mappings the caller held when it called executeScript the first time
PassedPools == <<EmptyMap, InitialAttributes, InitialRoleInfo, EmptyMap, EmptyMap>>

\* what a read of the variable gives from those mappings
OriginalValue(target) ==
  visit(target, <<1>>,
        [St(<<>>) EXCEPT !.variables = EmptyMap, !.attributes = InitialAttributes,
                         !.roleInfo = InitialRoleInfo, !.systemInfo = EmptyMap,
                         !.diceInfo = EmptyMap]).val

\* C28: a run never modifies the pool mappings the caller passed in: after a run
\* that assigns to locals, $a or $d variables the caller's mappings (the Maps the
\* context was built on) hold what they held, and a second run over them reads the
\* original values.
C28_CallerPoolsUntouched ==
  /\ status = "done" => ContextPools = PassedPools
  /\ (obs.act = "ProgramStep" /\ program.kids[1] \in ReadingStatements)
       => lastValue = OriginalValue(program.kids[1].kids[1])

-----------------------------------------------------------------------------
(* The Loop warning *)

\* the last step left a while loop
LeftLoop == obs.act \in {"WhileBreak", "WhileCeiling"}

\* the condition of the loop that was left, evaluated now
ConditionNow == toBoolean(visit(obs.node.kids[1], <<1>>, St(<<>>)).val)

\* C29: a while loop whose condition has become falsy records no Loop warning,
\* whatever the number of iterations it completed (exactly 10,000 included); the
\* warning is recorded only for a loop cut off while its condition is still truthy.
C29_LoopWarningOnlyWhenCutOff ==
  LeftLoop => (Count(warnings, "Loop") > 0 <=> ConditionNow)

-----------------------------------------------------------------------------
(* The order of an assignment: its right-hand side, then its target *)

\* the last step ran an assignment that was rejected for its left-hand side
RejectedForTarget ==
  /\ obs.act = "ProgramStep"
  /\ obs.node.k = "expr"
  /\ obs.node.kids[1].k = "asg"
  /\ obs.node.kids[1].kids[1].k \notin {"id", "sv"}
  /\ thrown = InvalidLeftHandSide

\* C30: the left-hand side of an assignment is validated before the right-hand side
\* is evaluated: an assignment rejected for an invalid left-hand side leaves every
\* pool as it was and its right-hand side rolls no die and records no diagnostic.
C30_TargetValidatedFirst ==
  RejectedForTarget
    => /\ ContextPools = PassedPools
       /\ obs.draws = 0
       /\ obs.diceFailures = 0
       /\ errors = <<>>
       /\ warnings = <<>>

====
